---- MODULE Spec2Model ----
(***************************************************************************)
(* Logic simulator front end: Names, Scanner and Parser.                   *)
(*                                                                         *)
(* The definition file is a sequence of one-character strings; Python      *)
(* strings (names, keywords, numbers) are sequences of characters too, so  *)
(* that maximal runs, int() and the file offsets of tell()/seek() are      *)
(* computed as the code computes them.  None is -1 where the code compares *)
(* it with a name id, and <<>> where it stands for "no connection".        *)
(***************************************************************************)
EXTENDS Integers, Sequences, FiniteSets, TLC

VARIABLES
    file,                      \* characters of the definition file (scanner.file)
    pos,                       \* scanner.file.tell()
    current_character,         \* scanner.current_character
    error_count,               \* scanner.error_count
    last_semicolon_pos,        \* scanner.last_semicolon_pos
    last_last_semicolon_pos,   \* scanner.last_last_semicolon_pos
    last_comment_pos,          \* scanner.last_comment_pos
    error_message_list,        \* scanner.error_message_list
    names_list,                \* names.names_list
    error_code_count,          \* names.error_code_count
    devices_list,              \* devices.devices_list (inputs hold the connections)
    monitors_dictionary,       \* monitors.monitors_dictionary (keys, in insertion order)
    histories,                 \* monitors.monitors_dictionary (the signal list of each key)
    signals,                   \* the output levels and the phase of each device
    cycles_completed,          \* gui.cycles_completed
    spin_value,                \* gui.spin_value
    current_symbol,            \* parser.current_symbol
    pc,                        \* position of parse_network
    locals,                    \* locals of parse_network that live across steps
    reads,                     \* number of get_symbol calls made so far
    result                     \* return value of parse_network

vars == <<file, pos, current_character, error_count, last_semicolon_pos,
          last_last_semicolon_pos, last_comment_pos, error_message_list,
          names_list, error_code_count, devices_list, monitors_dictionary,
          histories, signals, cycles_completed, spin_value,
          current_symbol, pc, locals, reads, result>>

(***************************************************************************)
(* String literals of the source, as character sequences.                  *)
(***************************************************************************)
S == [ define   |-> <<"d", "e", "f", "i", "n", "e">>,
       connect  |-> <<"c", "o", "n", "n", "e", "c", "t">>,
       monitor  |-> <<"m", "o", "n", "i", "t", "o", "r">>,
       END      |-> <<"E", "N", "D">>,
       as       |-> <<"a", "s">>,
       XOR      |-> <<"X", "O", "R">>,
       DTYPE    |-> <<"D", "T", "Y", "P", "E">>,
       CLOCK    |-> <<"C", "L", "O", "C", "K">>,
       SWITCH   |-> <<"S", "W", "I", "T", "C", "H">>,
       state    |-> <<"s", "t", "a", "t", "e">>,
       NAND     |-> <<"N", "A", "N", "D">>,
       AND      |-> <<"A", "N", "D">>,
       OR       |-> <<"O", "R">>,
       NOR      |-> <<"N", "O", "R">>,
       inputs   |-> <<"i", "n", "p", "u", "t", "s">>,
       period   |-> <<"p", "e", "r", "i", "o", "d">>,
       to       |-> <<"t", "o">>,
       Q        |-> <<"Q">>,
       QBAR     |-> <<"Q", "B", "A", "R">>,
       DATA     |-> <<"D", "A", "T", "A">>,
       CLK      |-> <<"C", "L", "K">>,
       SET      |-> <<"S", "E", "T">>,
       CLEAR    |-> <<"C", "L", "E", "A", "R">>,
       SIGGEN   |-> <<"S", "I", "G", "G", "E", "N">>,
       waveform |-> <<"w", "a", "v", "e", "f", "o", "r", "m">>,
       for      |-> <<"f", "o", "r">>,
       cycles   |-> <<"c", "y", "c", "l", "e", "s">>,
       zero     |-> <<"0">>,
       one      |-> <<"1">>,
       dot      |-> <<".">>,
       semi     |-> <<";">>,
       eof      |-> <<>>,
       I        |-> <<"I">> ]

\* Python's None, where it is compared with a name id.
None == -1

\* With(v, LAMBDA x : e) is e with x bound to the value of v: the value of
\* a call, bound to the name the code assigns it to and computed once.
With(v, F(_)) == CHOOSE r \in { F(x) : x \in {v} } : TRUE

(***************************************************************************)
(* Character classes: str.isalpha, str.isdigit, str.isalnum, str.isspace   *)
(* on the ASCII characters; the empty string (end of file) is in none.     *)
(***************************************************************************)
Letters == {"a", "b", "c", "d", "e", "f", "g", "h", "i", "j", "k", "l", "m",
            "n", "o", "p", "q", "r", "s", "t", "u", "v", "w", "x", "y", "z",
            "A", "B", "C", "D", "E", "F", "G", "H", "I", "J", "K", "L", "M",
            "N", "O", "P", "Q", "R", "S", "T", "U", "V", "W", "X", "Y", "Z"}

DigitChars == <<"0", "1", "2", "3", "4", "5", "6", "7", "8", "9">>

isalpha(c) == c \in Letters

isdigit(c) == \E i \in 1..10 : DigitChars[i] = c

isalnum(c) == isalpha(c) \/ isdigit(c)

isspace(c) == c \in {" ", "\n", "\t"}

(***************************************************************************)
(* Names                                                                   *)
(***************************************************************************)
\* list.index: the 0-based position of the first occurrence, None if absent.
index(list, x) ==
    IF \E i \in 1..Len(list) : list[i] = x
    THEN (CHOOSE i \in 1..Len(list) :
              list[i] = x /\ \A j \in 1..(i - 1) : list[j] # x) - 1
    ELSE None

\* a variant of query that counts the places of the list from 1
query_from_one(nl, name_string) ==
    IF index(nl, name_string) = None THEN None
    ELSE index(nl, name_string) + 1

query(nl, name_string) == index(nl, name_string)

\* a variant of lookup1 that appends the string whether it is present or not
lookup1_append(nl, name_string) ==
    [names_list |-> Append(nl, name_string), id |-> Len(nl)]

\* lookup of one string: the id, and the names list after the call.
lookup1(nl, name_string) ==
    IF index(nl, name_string) # None
    THEN [names_list |-> nl, id |-> index(nl, name_string)]
    ELSE [names_list |-> Append(nl, name_string), id |-> Len(nl)]

RECURSIVE lookup(_, _)
\* lookup of a list of strings, in order: the ids and the names list after.
lookup(nl, name_string_list) ==
    IF name_string_list = <<>>
    THEN [names_list |-> nl, ids |-> <<>>]
    ELSE With(lookup1(nl, Head(name_string_list)), LAMBDA h :
         With(lookup(h.names_list, Tail(name_string_list)), LAMBDA t :
             [names_list |-> t.names_list, ids |-> <<h.id>> \o t.ids]))

\* get_name_string for an id that is an int >= 0: the string, or None.
get_name_string(nl, name_id) ==
    IF name_id < Len(nl) /\ name_id >= 0 THEN nl[name_id + 1] ELSE None

(***************************************************************************)
(* Python's int() and str() on the strings the parser hands them.          *)
(***************************************************************************)
IsDigitString(s) == Len(s) > 0 /\ \A i \in 1..Len(s) : isdigit(s[i])

DigitValue(c) == (CHOOSE i \in 1..10 : DigitChars[i] = c) - 1

RECURSIVE int(_)
\* int(s) for a string of ASCII digits (leading zeros are dropped).
int(s) == IF Len(s) = 0 THEN 0
          ELSE 10 * int(SubSeq(s, 1, Len(s) - 1)) + DigitValue(s[Len(s)])

RECURSIVE str(_)
\* str(n) for an integer n >= 0.
str(n) == IF n < 10 THEN <<DigitChars[n + 1]>>
          ELSE str(n \div 10) \o <<DigitChars[(n % 10) + 1]>>

(***************************************************************************)
(* Scanner.  A scanner operator takes the program state st (a record with  *)
(* one field per variable) and gives the state after the call.             *)
(***************************************************************************)
\* symbol types, scanner.symbol_type_list
FULLSTOP == 0
SEMICOLON == 1
KEYWORD == 2
NUMBER == 3
NAME == 4
INVALID == 5
EOF == 6

keywords_list == <<S.define, S.connect, S.monitor, S.END, S.as, S.XOR,
                   S.DTYPE, S.CLOCK, S.SWITCH, S.state, S.NAND, S.AND, S.OR,
                   S.NOR, S.inputs, S.period, S.to, S.Q, S.QBAR, S.DATA,
                   S.CLK, S.SET, S.CLEAR>>

RECURSIVE skip_spaces_from(_, _)
\* the loop of skip_spaces from offset p: the offset after the last read
\* and the character read last ("" at end of file).
skip_spaces_from(f, p) ==
    IF p >= Len(f) THEN [pos |-> p, z |-> ""]
    ELSE IF isspace(f[p + 1]) THEN skip_spaces_from(f, p + 1)
    ELSE [pos |-> p + 1, z |-> f[p + 1]]

skip_spaces(st0) ==
    With(st0, LAMBDA st :
    With(skip_spaces_from(st.file, st.pos), LAMBDA r :
        [st EXCEPT !.pos = r.pos, !.current_character = r.z]))

RECURSIVE name_end_letters(_, _)
\* a variant of name_end that ends the run at the first character that is
\* no letter
name_end_letters(f, p) ==
    IF p < Len(f) /\ isalpha(f[p + 1]) THEN name_end_letters(f, p + 1) ELSE p

RECURSIVE name_end(_, _)
\* the offset after the last alphanumeric character of the run at p.
name_end(f, p) ==
    IF p < Len(f) /\ isalnum(f[p + 1]) THEN name_end(f, p + 1) ELSE p

RECURSIVE number_end(_, _)
\* the offset after the last digit of the run at p.
number_end(f, p) ==
    IF p < Len(f) /\ isdigit(f[p + 1]) THEN number_end(f, p + 1) ELSE p

\* get_name: the name string; the file is left after its last character.
get_name(st0) ==
    With(st0, LAMBDA st :
    With(name_end(st.file, st.pos), LAMBDA e :
        [st   |-> [st EXCEPT !.pos = e],
         name |-> <<st.current_character>> \o SubSeq(st.file, st.pos + 1, e)]))

\* get_number: the digit string; the file is left after its last digit.
get_number(st0) ==
    With(st0, LAMBDA st :
    With(number_end(st.file, st.pos), LAMBDA e :
        [st  |-> [st EXCEPT !.pos = e],
         num |-> <<st.current_character>> \o SubSeq(st.file, st.pos + 1, e)]))

RECURSIVE comment_end_at_line(_, _)
\* a variant of comment_end that ends the comment at a line break as well
comment_end_at_line(f, p) ==
    IF p >= Len(f) THEN [pos |-> p, z |-> ""]
    ELSE IF f[p + 1] \in {"#", "\n"} THEN [pos |-> p + 1, z |-> f[p + 1]]
    ELSE comment_end_at_line(f, p + 1)

RECURSIVE comment_end(_, _)
\* the offset after the next "#" at or after p, or the end of the file.
comment_end(f, p) ==
    IF p >= Len(f) THEN [pos |-> p, z |-> ""]
    ELSE IF f[p + 1] = "#" THEN [pos |-> p + 1, z |-> "#"]
    ELSE comment_end(f, p + 1)

\* a variant of skip_comment that reads one character and no further
skip_comment_one(st0) ==
    With(st0, LAMBDA st :
    With(IF st.pos >= Len(st.file) THEN [pos |-> st.pos, z |-> ""]
         ELSE [pos |-> st.pos + 1, z |-> st.file[st.pos + 1]], LAMBDA r :
        [st EXCEPT !.pos = r.pos, !.last_comment_pos = r.pos,
                   !.current_character = r.z]))

skip_comment(st0) ==
    With(st0, LAMBDA st :
    With(comment_end(st.file, st.pos), LAMBDA r :
        [st EXCEPT !.pos = r.pos, !.last_comment_pos = r.pos,
                   !.current_character = r.z]))

\* a symbol of the given type for string s, interned; symbol.pos is tell().
make_symbol(st0, type, s) ==
    With(st0, LAMBDA st :
    With(lookup1(st.names_list, s), LAMBDA l :
        [st     |-> [st EXCEPT !.names_list = l.names_list],
         symbol |-> [type |-> type, id |-> l.id, pos |-> st.pos]]))

RECURSIVE get_symbol(_)
get_symbol(st0) ==
    With(skip_spaces(st0), LAMBDA st :
    With(st.current_character, LAMBDA c :
        IF c = "#" THEN get_symbol(skip_comment(st))
        ELSE IF isalpha(c) THEN
            With(get_name(st), LAMBDA n :
                make_symbol(n.st,
                            IF index(keywords_list, n.name) # None
                            THEN KEYWORD ELSE NAME,
                            n.name))
        ELSE IF isdigit(c) THEN
            With(get_number(st), LAMBDA n : make_symbol(n.st, NUMBER, n.num))
        ELSE IF c = "." THEN make_symbol(st, FULLSTOP, S.dot)
        ELSE IF c = ";" THEN
            With(make_symbol(st, SEMICOLON, S.semi), LAMBDA m :
                [m EXCEPT !.st.last_last_semicolon_pos = st.last_semicolon_pos,
                          !.st.last_semicolon_pos = st.pos])
        ELSE IF c = "" THEN make_symbol(st, EOF, S.eof)
        ELSE make_symbol(st, INVALID, <<c>>)))

\* a readline that reads nothing: the variant of line_end against which
\* Termination is tested
line_stay(f, p) == p

RECURSIVE line_end(_, _)
\* file.readline() from offset p: the offset after the next line break.
line_end(f, p) ==
    IF p >= Len(f) THEN p
    ELSE IF f[p + 1] = "\n" THEN p + 1
    ELSE line_end(f, p + 1)

\* a variant of error_line_pos that takes no account of comments
error_line_pos_semicolon(st) ==
    IF st.current_character = ";"
    THEN st.last_last_semicolon_pos
    ELSE st.last_semicolon_pos

\* the offset display_error seeks to before it prints the line.
error_line_pos(st) ==
    IF st.last_semicolon_pos > st.last_comment_pos
    THEN IF st.current_character = ";"
         THEN st.last_last_semicolon_pos
         ELSE st.last_semicolon_pos
    ELSE st.last_comment_pos

\* the seek to the start of the error line (lines 243-249).
seek_error_line(st) ==
    With(error_line_pos(st), LAMBDA p :
        IF p = 0 THEN [st EXCEPT !.pos = 0]
        ELSE With(skip_spaces([st EXCEPT !.pos = p]), LAMBDA s :
                 [s EXCEPT !.pos = s.pos - 1]))

\* an error message: its fixed text, and in args the strings the code
\* appends to it (the floating inputs, each device + "." + port; the kind).
Message(text) == [text |-> text, args |-> <<>>]

\* a variant of display_error that leaves the file where the error was
\* found instead of after the error line
display_error_in_place(st0, error_message, caret) ==
    With(st0, LAMBDA st :
        [st EXCEPT !.error_count = st.error_count + 1,
                   !.error_message_list =
                       Append(st.error_message_list, error_message),
                   !.last_semicolon_pos = st.pos])

\* type(error_message) == str: a message of the parser is a record with a
\* text; any other value stands for a message that is no string
is_str(error_message) == "text" \in DOMAIN error_message

\* the count and the list are changed and the file is sought before the
\* type of the message is tested; TypeError leaves the function before
\* readline and before last_semicolon_pos is assigned
display_error(st0, error_message, caret) ==
    With(st0, LAMBDA st :
    With(seek_error_line(st), LAMBDA s1 :
    With(IF caret /\ is_str(error_message)
         THEN [s1 EXCEPT !.pos = line_end(s1.file, s1.pos)] ELSE s1,
         LAMBDA s2 :
        [s2 EXCEPT !.error_count = st.error_count + 1,
                   !.error_message_list =
                       Append(st.error_message_list, error_message),
                   !.last_semicolon_pos =
                       IF is_str(error_message) THEN s2.pos
                       ELSE st.last_semicolon_pos])))

(***************************************************************************)
(* Devices, Network and Monitors.  A device is a record: device_id,        *)
(* device_kind (the name id of the kind), inputs (in port order, each with *)
(* its connection: <<>> when unconnected, <<device_id, port_id>>           *)
(* otherwise), outputs (the output port ids) and qualifier (the switch     *)
(* state, input count, half period or waveform).  signals holds for the    *)
(* device at the same place of devices_list the levels of its outputs, in  *)
(* the order of outputs, and the phase counter of a CLOCK or SIGGEN.        *)
(* histories holds for the key at the same place of monitors_dictionary    *)
(* the levels recorded for it.                                             *)
(***************************************************************************)
LOW == 0
HIGH == 1
BLANK == 4

\* the levels and the phase of a device at its creation and after
\* cold_startup: a switch at its declared level, Q low and QBAR high, any
\* other output low, phase 0
cold_signal(kind, qualifier) ==
    [levels  |-> IF kind = S.SWITCH THEN <<qualifier[1]>>
                 ELSE IF kind = S.DTYPE THEN <<LOW, HIGH>>
                 ELSE <<LOW>>,
     counter |-> 0]

device_exists(dl, device_id) ==
    \E i \in 1..Len(dl) : dl[i].device_id = device_id

\* get_device for the id of an existing device.
get_device(dl, device_id) ==
    dl[CHOOSE i \in 1..Len(dl) : dl[i].device_id = device_id]

\* the strings "I1" .. "In"
input_names(n) == [k \in 1..n |-> S.I \o str(k)]

unconnected(port_ids) == [k \in 1..Len(port_ids) |-> [port |-> port_ids[k], conn |-> <<>>]]

new_device(st, device_id, device_kind, input_strings, output_strings, qualifier) ==
    With(lookup(st.names_list, input_strings), LAMBDA i :
    With(lookup(i.names_list, output_strings), LAMBDA o :
        [st EXCEPT !.names_list = o.names_list,
                   !.devices_list = Append(st.devices_list,
                       [device_id   |-> device_id,
                        device_kind |-> device_kind,
                        inputs      |-> unconnected(i.ids),
                        outputs     |-> IF o.ids = <<>> THEN <<None>> ELSE o.ids,
                        qualifier   |-> qualifier]),
                   !.signals = Append(st.signals,
                       cold_signal(get_name_string(st.names_list, device_kind),
                                   qualifier))]))

\* make_device: the state after the call and the status it returns.
make_device(st0, device_id, device_kind, device_property) ==
    With(st0, LAMBDA st :
    LET kind == get_name_string(st.names_list, device_kind)
        ok(s) == [st |-> s, error_type |-> "NO_ERROR"]
        bad(e) == [st |-> st, error_type |-> e]
    IN  IF device_exists(st.devices_list, device_id) THEN bad("DEVICE_PRESENT")
        ELSE IF kind = S.SWITCH THEN
            IF device_property \in {<<LOW>>, <<HIGH>>}
            THEN ok(new_device(st, device_id, device_kind, <<>>, <<>>, device_property))
            ELSE bad("INVALID_QUALIFIER")
        ELSE IF kind \in {S.AND, S.NAND, S.OR, S.NOR} THEN
            IF device_property[1] \in 1..16
            THEN ok(new_device(st, device_id, device_kind,
                               input_names(device_property[1]), <<>>, device_property))
            ELSE bad("INVALID_QUALIFIER")
        ELSE IF kind = S.XOR THEN
            ok(new_device(st, device_id, device_kind, input_names(2), <<>>, <<>>))
        ELSE IF kind = S.CLOCK THEN
            IF device_property[1] >= 1
            THEN ok(new_device(st, device_id, device_kind, <<>>, <<>>, device_property))
            ELSE bad("INVALID_QUALIFIER")
        ELSE IF kind = S.DTYPE THEN
            ok(new_device(st, device_id, device_kind,
                          <<S.CLK, S.SET, S.CLEAR, S.DATA>>, <<S.Q, S.QBAR>>, <<>>))
        ELSE IF kind = S.SIGGEN THEN
            ok(new_device(st, device_id, device_kind, <<>>, <<>>, device_property))
        ELSE bad("BAD_DEVICE"))

\* a variant of has_input that knows the first input of a device only
has_first_input(device, port_id) ==
    device.inputs # <<>> /\ device.inputs[1].port = port_id

has_input(device, port_id) ==
    \E k \in 1..Len(device.inputs) : device.inputs[k].port = port_id

input_connection(device, port_id) ==
    device.inputs[CHOOSE k \in 1..Len(device.inputs) :
                      device.inputs[k].port = port_id].conn

\* make_connection from an output to an input the parser has validated.
make_connection(st, first_device_id, first_port_id, second_device_id, second_port_id) ==
    LET second == get_device(st.devices_list, second_device_id)
        i == CHOOSE i \in 1..Len(st.devices_list) :
                 st.devices_list[i].device_id = second_device_id
        k == CHOOSE k \in 1..Len(second.inputs) :
                 second.inputs[k].port = second_port_id
    IN  IF input_connection(second, second_port_id) # <<>>
        THEN [st |-> st, error_type |-> "INPUT_CONNECTED"]
        ELSE [st |-> [st EXCEPT !.devices_list[i].inputs[k].conn =
                                    <<first_device_id, first_port_id>>],
              error_type |-> "NO_ERROR"]

RECURSIVE floating_of(_, _)
\* the unconnected inputs of one device from input k on, in port order.
floating_of(device, k) ==
    IF k > Len(device.inputs) THEN <<>>
    ELSE (IF device.inputs[k].conn = <<>>
          THEN <<(<<device.device_id, device.inputs[k].port>>)>> ELSE <<>>)
         \o floating_of(device, k + 1)

RECURSIVE check_network_from(_, _)
check_network_from(dl, i) ==
    IF i > Len(dl) THEN <<>>
    ELSE floating_of(dl[i], 1) \o check_network_from(dl, i + 1)

\* check_network: every unconnected input as <<device_id, input_id>>.
check_network(st) == check_network_from(st.devices_list, 1)

\* make_monitor at parse time (no cycle has run).
make_monitor(st, device_id, output_id) ==
    IF \E i \in 1..Len(st.monitors_dictionary) :
           st.monitors_dictionary[i] = <<device_id, output_id>>
    THEN [st |-> st, error_type |-> "MONITOR_PRESENT"]
    ELSE [st |-> [st EXCEPT !.monitors_dictionary =
                                Append(st.monitors_dictionary, <<device_id, output_id>>),
                            !.histories = Append(st.histories, <<>>)],
          error_type |-> "NO_ERROR"]

\* make_monitor with the number of cycles that have elapsed: the history
\* is padded with one BLANK for each.
make_monitor_cycles(st, device_id, output_id, cycles) ==
    IF \E i \in 1..Len(st.monitors_dictionary) :
           st.monitors_dictionary[i] = <<device_id, output_id>>
    THEN [st |-> st, error_type |-> "MONITOR_PRESENT"]
    ELSE [st |-> [st EXCEPT !.monitors_dictionary =
                                Append(st.monitors_dictionary, <<device_id, output_id>>),
                            !.histories = Append(st.histories,
                                [k \in 1..cycles |-> BLANK])],
          error_type |-> "NO_ERROR"]

\* the sequence without its i-th element
remove_at(list, i) ==
    [k \in 1..(Len(list) - 1) |-> IF k < i THEN list[k] ELSE list[k + 1]]

remove_monitor(st, device_id, output_id) ==
    IF \E i \in 1..Len(st.monitors_dictionary) :
           st.monitors_dictionary[i] = <<device_id, output_id>>
    THEN LET i == CHOOSE i \in 1..Len(st.monitors_dictionary) :
                      st.monitors_dictionary[i] = <<device_id, output_id>>
         IN  [st |-> [st EXCEPT !.monitors_dictionary = remove_at(st.monitors_dictionary, i),
                                !.histories = remove_at(st.histories, i)],
              ret |-> TRUE]
    ELSE [st |-> st, ret |-> FALSE]

reset_monitors(st) ==
    [st EXCEPT !.histories = [i \in 1..Len(st.histories) |-> <<>>]]

\* the place of a device in devices_list and of an output in its outputs
device_index(dl, device_id) ==
    CHOOSE i \in 1..Len(dl) : dl[i].device_id = device_id

output_index(device, port_id) ==
    CHOOSE k \in 1..Len(device.outputs) : device.outputs[k] = port_id

\* the level of an output in the table sig of levels
output_level(dl, sig, device_id, port_id) ==
    sig[device_index(dl, device_id)].levels[
        output_index(get_device(dl, device_id), port_id)]

get_output_signal(st, device_id, port_id) ==
    output_level(st.devices_list, st.signals, device_id, port_id)

\* the level at the k-th input of a device, which is connected
input_level(dl, sig, device, k) ==
    output_level(dl, sig, device.inputs[k].conn[1], device.inputs[k].conn[2])

\* the calls of the simulator and of the monitor store, in order
called(st, op, ret) ==
    [st EXCEPT !.locals.calls = Append(st.locals.calls, [op |-> op, ret |-> ret])]

record_signals(st) ==
    called([st EXCEPT !.histories =
               [i \in 1..Len(st.histories) |->
                   Append(st.histories[i],
                          get_output_signal(st, st.monitors_dictionary[i][1],
                                            st.monitors_dictionary[i][2]))]],
           "record_signals", TRUE)

kind_of(st, device) == get_name_string(st.names_list, device.device_kind)

cold_startup(st) ==
    [st EXCEPT !.signals =
        [i \in 1..Len(st.devices_list) |->
            cold_signal(kind_of(st, st.devices_list[i]), st.devices_list[i].qualifier)]]

set_switch(st, switch_id, level) ==
    IF /\ device_exists(st.devices_list, switch_id)
       /\ kind_of(st, get_device(st.devices_list, switch_id)) = S.SWITCH
    THEN LET i == device_index(st.devices_list, switch_id)
         IN  [st |-> [st EXCEPT !.devices_list[i].qualifier = <<level>>,
                                !.signals[i].levels = <<level>>],
              ret |-> TRUE]
    ELSE [st |-> st, ret |-> FALSE]

invert(level) == IF level = HIGH THEN LOW ELSE HIGH

\* a variant of gate_level in which a NAND gate does not invert
gate_level_and(kind, levels) ==
    LET all == \A k \in 1..Len(levels) : levels[k] = HIGH
        any == \E k \in 1..Len(levels) : levels[k] = HIGH
    IN  IF kind \in {S.AND, S.NAND} THEN (IF all THEN HIGH ELSE LOW)
        ELSE IF kind = S.OR THEN (IF any THEN HIGH ELSE LOW)
        ELSE IF kind = S.NOR THEN (IF any THEN LOW ELSE HIGH)
        ELSE (IF levels[1] # levels[2] THEN HIGH ELSE LOW)

\* the output of a gate as a function of the levels at its inputs
gate_level(kind, levels) ==
    LET all == \A k \in 1..Len(levels) : levels[k] = HIGH
        any == \E k \in 1..Len(levels) : levels[k] = HIGH
    IN  IF kind = S.AND THEN (IF all THEN HIGH ELSE LOW)
        ELSE IF kind = S.NAND THEN (IF all THEN LOW ELSE HIGH)
        ELSE IF kind = S.OR THEN (IF any THEN HIGH ELSE LOW)
        ELSE IF kind = S.NOR THEN (IF any THEN LOW ELSE HIGH)
        ELSE (IF levels[1] # levels[2] THEN HIGH ELSE LOW)

\* step 1 of a cycle: the phase of every CLOCK and SIGGEN moves on by one
\* cycle and the level scheduled for the cycle is put out.  A CLOCK is low
\* for its half period, then high for its half period.
advance_phase(st) ==
    [i \in 1..Len(st.devices_list) |->
        LET device == st.devices_list[i]
            kind == kind_of(st, device)
        IN  IF kind = S.CLOCK
            THEN LET counter == (st.signals[i].counter % (2 * device.qualifier[1])) + 1
                 IN  [levels  |-> <<IF counter <= device.qualifier[1] THEN LOW ELSE HIGH>>,
                      counter |-> counter]
            ELSE IF kind = S.SIGGEN
            THEN LET counter == (st.signals[i].counter % Len(device.qualifier)) + 1
                 IN  [levels |-> <<device.qualifier[counter]>>, counter |-> counter]
            ELSE st.signals[i]]

\* one pass of step 2: every combinational output from the levels in sig
pass(st, sig) ==
    [i \in 1..Len(st.devices_list) |->
        LET device == st.devices_list[i]
            kind == kind_of(st, device)
        IN  IF kind = S.SWITCH
            THEN [sig[i] EXCEPT !.levels = <<device.qualifier[1]>>]
            ELSE IF kind \in {S.AND, S.NAND, S.OR, S.NOR, S.XOR}
            THEN [sig[i] EXCEPT !.levels =
                     <<gate_level(kind, [k \in 1..Len(device.inputs) |->
                                            input_level(st.devices_list, sig, device, k)])>>]
            ELSE sig[i]]

RECURSIVE settle_accepting(_, _, _)
\* a variant of settle that takes the levels of the last pass for steady
settle_accepting(st, sig0, passes) ==
    With(sig0, LAMBDA sig :
        IF passes = 0 THEN [signals |-> sig, steady |-> TRUE]
        ELSE With(pass(st, sig), LAMBDA new :
            IF new = sig THEN [signals |-> sig, steady |-> TRUE]
            ELSE settle_accepting(st, new, passes - 1)))

RECURSIVE settle(_, _, _)
\* step 2: passes until one changes nothing, at most `passes` of them
settle(st, sig0, passes) ==
    With(sig0, LAMBDA sig :
        IF passes = 0 THEN [signals |-> sig, steady |-> FALSE]
        ELSE With(pass(st, sig), LAMBDA new :
            IF new = sig THEN [signals |-> sig, steady |-> TRUE]
            ELSE settle(st, new, passes - 1)))

\* a variant of pass_limit that allows one pass for each device but one
pass_limit_short(st) == Len(st.devices_list) - 1

\* the pass limit of a cycle
pass_limit(st) == Len(st.devices_list) + 1

\* step 4: the transitions of every DTYPE, from the steady levels sig and
\* the levels st.signals of before the cycle (inputs CLK, SET, CLEAR, DATA
\* in this order)
commit_dtypes(st, sig) ==
    [i \in 1..Len(st.devices_list) |->
        LET device == st.devices_list[i]
            now(k) == input_level(st.devices_list, sig, device, k)
            before(k) == input_level(st.devices_list, st.signals, device, k)
        IN  IF kind_of(st, device) # S.DTYPE THEN sig[i]
            ELSE IF now(2) = HIGH THEN [sig[i] EXCEPT !.levels = <<HIGH, LOW>>]
            ELSE IF now(3) = HIGH THEN [sig[i] EXCEPT !.levels = <<LOW, HIGH>>]
            ELSE IF before(1) = LOW /\ now(1) = HIGH
            THEN [sig[i] EXCEPT !.levels = <<now(4), invert(now(4))>>]
            ELSE sig[i]]

\* a variant of execute_network that commits the DTYPE transitions of a
\* cycle that found no fixed point
execute_network_committing(st0) ==
    With(st0, LAMBDA st :
    With(settle(st, advance_phase(st), pass_limit(st)), LAMBDA s :
        [st |-> called([st EXCEPT !.signals = commit_dtypes(st, s.signals)],
                       "execute_network", s.steady),
         ret |-> s.steady]))

\* execute_network: one cycle; the state after it and the value returned
execute_network(st0) ==
    With(st0, LAMBDA st :
    With(settle(st, advance_phase(st), pass_limit(st)), LAMBDA s :
        IF ~s.steady
        THEN [st |-> called([st EXCEPT !.signals = s.signals], "execute_network", FALSE),
              ret |-> FALSE]
        ELSE [st |-> called([st EXCEPT !.signals = commit_dtypes(st, s.signals)],
                            "execute_network", TRUE),
              ret |-> TRUE]))

(***************************************************************************)
(* Parser.  A method is an operator from the state before the call to the  *)
(* state after it and its return value.                                    *)
(***************************************************************************)

\* self.current_symbol = self.scanner.get_symbol()
advance(st0) ==
    With(st0, LAMBDA st :
    With(get_symbol(st), LAMBDA g :
        [g.st EXCEPT !.current_symbol = g.symbol, !.reads = st.reads + 1]))

\* self.current_symbol.id == self.names.query(string)
symbol_is(st, string) == st.current_symbol.id = query(st.names_list, string)

error(st, text) == display_error(st, Message(text), TRUE)

failed(st, text) == [st |-> error(st, text), ret |-> FALSE]

name(st) ==
    IF st.current_symbol.type # NAME
    THEN failed(st, "Invalid name, may be keyword")
    ELSE [st |-> st, ret |-> TRUE]

RECURSIVE make_devices(_, _, _, _, _)
\* the loop "for name_id in name_ids: make_device(...)"; when checked, the
\* first INVALID_QUALIFIER ends it.
make_devices(st, name_ids, device_kind, device_property, checked) ==
    IF name_ids = <<>> THEN [st |-> st, error_type |-> "NO_ERROR"]
    ELSE With(make_device(st, Head(name_ids), device_kind, device_property),
              LAMBDA m :
                  IF checked /\ m.error_type = "INVALID_QUALIFIER" THEN m
                  ELSE make_devices(m.st, Tail(name_ids), device_kind,
                                    device_property, checked))

\* lines 173-188
device_switch(st0, name_ids) ==
    With(advance(st0), LAMBDA st :
        IF ~symbol_is(st, S.zero) /\ ~symbol_is(st, S.one)
        THEN failed(st, "Expected 0 or 1 for switch state")
        ELSE With(advance(st), LAMBDA s2 :
            IF ~symbol_is(s2, S.state)
            THEN failed(s2, "Expected keyword 'state'")
            ELSE [st  |-> make_devices(s2, name_ids,
                              query(s2.names_list, S.SWITCH),
                              <<IF symbol_is(st, S.zero) THEN LOW ELSE HIGH>>,
                              FALSE).st,
                  ret |-> TRUE]))

\* lines 190-207
device_gate(st0, name_ids) ==
    With(advance(st0), LAMBDA st :
        IF ~IsDigitString(get_name_string(st.names_list, st.current_symbol.id))
        THEN failed(st, "Expected integer number of inputs.")
        ELSE With(advance(st), LAMBDA s2 :
            IF ~symbol_is(s2, S.inputs)
            THEN failed(s2, "Expected keyword 'inputs'")
            ELSE With(make_devices(s2, name_ids, st0.current_symbol.id,
                          <<int(get_name_string(st.names_list,
                                                st.current_symbol.id))>>,
                          TRUE),
                      LAMBDA m :
                IF m.error_type = "INVALID_QUALIFIER"
                THEN failed(m.st, "Number of inputs must be integer in range(1, 17)")
                ELSE [st |-> m.st, ret |-> TRUE])))

\* lines 209-225
device_clock(st0, name_ids) ==
    With(advance(st0), LAMBDA st :
        IF ~symbol_is(st, S.period)
        THEN failed(st, "Expected keyword 'period'")
        ELSE With(advance(st), LAMBDA s2 :
            IF ~IsDigitString(get_name_string(s2.names_list, s2.current_symbol.id))
            THEN failed(s2, "Expected integer period.")
            ELSE With(make_devices(s2, name_ids, query(s2.names_list, S.CLOCK),
                          <<int(get_name_string(s2.names_list,
                                                s2.current_symbol.id)) \div 2>>,
                          TRUE),
                      LAMBDA m :
                IF m.error_type = "INVALID_QUALIFIER"
                THEN failed(m.st, "Expected half period >= 1 simulation cycle")
                ELSE [st |-> m.st, ret |-> TRUE])))

\* lines 227-233: DTYPE and XOR
device_unqualified(st, name_ids, kind) ==
    [st  |-> make_devices(st, name_ids, query(st.names_list, kind), <<>>, FALSE).st,
     ret |-> TRUE]

\* a variant of repeat that takes every segment for one cycle long
repeat_once(level, multiple) == <<level>>

\* [level] * multiple
repeat(level, multiple) == [k \in 1..multiple |-> level]

symbol_int(st) == int(get_name_string(st.names_list, st.current_symbol.id))

RECURSIVE siggen_waveform(_, _, _)
\* lines 239-264, the while loop, entered with the symbol it tests: the
\* state after it, whether it ended at 'waveform', and the lists built.
siggen_waveform(st0, waveform, definition_complete) ==
    With(st0, LAMBDA st :
    IF symbol_is(st, S.waveform)
    THEN [st |-> st, ret |-> TRUE, waveform |-> waveform,
          definition_complete |-> definition_complete]
    ELSE IF ~symbol_is(st, S.zero) /\ ~symbol_is(st, S.one)
    THEN [st |-> error(st, "Expected 0 or 1 or keyword 'waveform'"), ret |-> FALSE,
          waveform |-> waveform, definition_complete |-> definition_complete]
    ELSE With(advance(st), LAMBDA s2 :
        IF ~symbol_is(s2, S.for)
        THEN [st |-> error(s2, "Expected keyword 'for'"), ret |-> FALSE,
              waveform |-> waveform, definition_complete |-> definition_complete]
        ELSE With(advance(s2), LAMBDA s3 :
            IF ~IsDigitString(get_name_string(s3.names_list, s3.current_symbol.id))
            THEN [st |-> error(s3, "Expected integer number of cycles"),
                  ret |-> FALSE, waveform |-> waveform,
                  definition_complete |-> definition_complete]
            ELSE IF symbol_int(s3) <= 0
            THEN [st |-> error(s3, "Number of cycles must be greater than 0"),
                  ret |-> FALSE, waveform |-> waveform,
                  definition_complete |-> definition_complete]
            ELSE With(advance(s3), LAMBDA s4 :
                IF ~symbol_is(s4, S.cycles)
                THEN [st |-> error(s4, "Expected keyword 'cycles'"),
                      ret |-> FALSE, waveform |-> waveform,
                      definition_complete |-> definition_complete]
                ELSE siggen_waveform(advance(s4),
                         waveform \o repeat(symbol_int(st), symbol_int(s3)),
                         TRUE)))))

\* lines 235-272
device_siggen(st0, name_ids) ==
    With(siggen_waveform(advance(st0), <<>>, FALSE), LAMBDA w :
        IF ~w.ret THEN [st |-> w.st, ret |-> FALSE]
        ELSE IF ~w.definition_complete
        THEN failed(w.st, "Require waveform definition before keyword 'waveform'")
        ELSE IF w.waveform = <<>>
        THEN failed(w.st, "Blank waveform received")
        ELSE [st  |-> make_devices(w.st, name_ids,
                          query(w.st.names_list, S.SIGGEN), w.waveform, FALSE).st,
              ret |-> TRUE])

device(st, name_ids) ==
    IF symbol_is(st, S.SWITCH) THEN device_switch(st, name_ids)
    ELSE IF \/ symbol_is(st, S.NAND) \/ symbol_is(st, S.AND)
            \/ symbol_is(st, S.OR) \/ symbol_is(st, S.NOR)
    THEN device_gate(st, name_ids)
    ELSE IF symbol_is(st, S.CLOCK) THEN device_clock(st, name_ids)
    ELSE IF symbol_is(st, S.DTYPE) THEN device_unqualified(st, name_ids, S.DTYPE)
    ELSE IF symbol_is(st, S.XOR) THEN device_unqualified(st, name_ids, S.XOR)
    ELSE IF symbol_is(st, S.SIGGEN) THEN device_siggen(st, name_ids)
    ELSE failed(st, "Expected device type")

is_kind(st, device_id, kind) ==
    get_device(st.devices_list, device_id).device_kind = query(st.names_list, kind)

\* the return value [None, None] of output and input, after an error
rejected(st, message) ==
    [st |-> display_error(st, message, TRUE), device_id |-> None, port_id |-> None]

\* a variant of output that asks no port of a DTYPE
output_unchecked(state) ==
    With(state, LAMBDA st0 :
    IF ~device_exists(st0.devices_list, st0.current_symbol.id)
    THEN rejected(st0, Message("Output device does not exist."))
    ELSE [st |-> advance(st0), device_id |-> st0.current_symbol.id,
          port_id |-> None])

output(state) ==
    With(state, LAMBDA st0 :
    IF ~device_exists(st0.devices_list, st0.current_symbol.id)
    THEN rejected(st0, Message("Output device does not exist."))
    ELSE With(advance(st0), LAMBDA st :
        IF symbol_is(st, S.dot) THEN
            IF ~is_kind(st, st0.current_symbol.id, S.DTYPE)
            THEN rejected(st,
                     Message("Unexpected dot. Can only specify port for DTYPE."))
            ELSE With(advance(st), LAMBDA s2 :
                IF ~symbol_is(s2, S.Q) /\ ~symbol_is(s2, S.QBAR)
                THEN rejected(s2, Message("Expected Q or QBAR to follow after dot."))
                ELSE [st |-> advance(s2), device_id |-> st0.current_symbol.id,
                      port_id |-> s2.current_symbol.id])
        ELSE IF is_kind(st, st0.current_symbol.id, S.DTYPE)
        THEN rejected(st, Message("Output port must be specified for DTYPE"))
        ELSE [st |-> st, device_id |-> st0.current_symbol.id, port_id |-> None]))

\* lines 332-349: the port is tested against lookup(['I1', ..., 'I16'])
input_gate_port(s2, name_id) ==
    With(lookup(s2.names_list, input_names(16)), LAMBDA l :
    With([s2 EXCEPT !.names_list = l.names_list], LAMBDA s3 :
        IF \E k \in 1..Len(l.ids) : l.ids[k] = s3.current_symbol.id
        THEN IF \A kind \in {S.AND, S.NAND, S.OR, S.NOR, S.XOR} :
                    ~is_kind(s3, name_id, kind)
             THEN rejected(s3,
                      [text |-> "Invalid input port type for ",
                       args |-> <<get_name_string(s3.names_list,
                                     get_device(s3.devices_list,
                                                name_id).device_kind)>>])
             ELSE IF ~has_input(get_device(s3.devices_list, name_id),
                                s3.current_symbol.id)
             THEN rejected(s3, Message("Specified input port out of range"))
             ELSE [st |-> s3, device_id |-> name_id,
                   port_id |-> s3.current_symbol.id]
        ELSE rejected(s3, Message("Expected port"))))

input(state) ==
    With(state, LAMBDA st0 :
    IF ~device_exists(st0.devices_list, st0.current_symbol.id)
    THEN rejected(st0, Message("Input device does not exist."))
    ELSE With(advance(st0), LAMBDA st :
        IF ~symbol_is(st, S.dot)
        THEN rejected(st, Message("Expected '.' before input port"))
        ELSE With(advance(st), LAMBDA s2 :
            IF \/ symbol_is(s2, S.DATA) \/ symbol_is(s2, S.SET)
               \/ symbol_is(s2, S.CLK) \/ symbol_is(s2, S.CLEAR)
            THEN IF ~is_kind(s2, st0.current_symbol.id, S.DTYPE)
                 THEN rejected(s2,
                          Message("DTYPE port specified for non-DTYPE device."))
                 ELSE [st |-> s2, device_id |-> st0.current_symbol.id,
                       port_id |-> s2.current_symbol.id]
            ELSE input_gate_port(s2, st0.current_symbol.id))))

(***************************************************************************)
(* parse_network, one operator per step of its loop.  pc is "start" at the *)
(* top of the loop, names a point inside a statement otherwise, "check"    *)
(* after the loop and "done" when parse_network has returned.              *)
(***************************************************************************)
continue(st) == [st EXCEPT !.pc = "start"]

\* lines 131-133: the semicolon check that ends an iteration.
statement_end(st0) ==
    With(st0, LAMBDA st :
        continue(IF ~symbol_is(st, S.semi)
                 THEN error(st, "Expected semicolon") ELSE st))

\* which branch of the loop a symbol read at line 61 takes
branch(st0) ==
    With(st0, LAMBDA st :
        IF symbol_is(st, S.END) THEN "END"
        ELSE IF symbol_is(st, S.define) THEN "define"
        ELSE IF symbol_is(st, S.connect) THEN "connect"
        ELSE IF symbol_is(st, S.monitor) THEN "monitor"
        ELSE IF st.current_symbol.type = EOF THEN "EOF"
        ELSE "other")

\* the number of diagnostics after which the model stops following a pass
MaxErrors == 10

\* the loop is at its top and the next symbol takes branch b
at(st, b) ==
    st.pc = "start" /\ st.error_count < MaxErrors /\ branch(advance(st)) = b

\* lines 61-63
read_END(st) == [advance(st) EXCEPT !.pc = "check"]

RECURSIVE name_list(_, _)
\* lines 73-79: the names up to 'as'.
name_list(st0, name_ids) ==
    With(st0, LAMBDA st :
        IF symbol_is(st, S.as)
        THEN [st |-> st, name_ids |-> name_ids, need_continue |-> FALSE]
        ELSE IF ~name(st).ret
        THEN [st |-> name(st).st, name_ids |-> name_ids, need_continue |-> TRUE]
        ELSE name_list(advance(st), Append(name_ids, st.current_symbol.id)))

\* lines 61, 65-82
define_names(st) ==
    With(advance(advance(st)), LAMBDA s1 :
        IF ~name(s1).ret THEN continue(name(s1).st)
        ELSE With(name_list(advance(s1), <<s1.current_symbol.id>>), LAMBDA l :
            IF l.need_continue
            THEN continue([l.st EXCEPT !.locals.name_ids = l.name_ids])
            ELSE [advance(l.st) EXCEPT !.locals.name_ids = l.name_ids,
                                       !.pc = "device"]))

\* lines 83-85 and 131-133
define_device(st) ==
    With(device(st, st.locals.name_ids), LAMBDA d :
        IF ~d.ret THEN continue(d.st) ELSE statement_end(advance(d.st)))

\* the locals [output_id, output_port_id] = self.output()
set_output(o) ==
    [o.st EXCEPT !.locals.output_id = o.device_id,
                 !.locals.output_port_id = o.port_id]

\* lines 61, 87-91
connect_output(st) ==
    With(output(advance(advance(st))), LAMBDA o :
        IF o.device_id = None THEN continue(set_output(o))
        ELSE [set_output(o) EXCEPT !.pc = "connect_to"])

\* a variant of connect_to that takes any symbol for 'to'
connect_to_any(st) == [advance(st) EXCEPT !.pc = "connect_input"]

\* lines 92-95
connect_to(st) ==
    IF ~symbol_is(st, S.to) THEN continue(error(st, "Expected keyword 'to'."))
    ELSE [advance(st) EXCEPT !.pc = "connect_input"]

\* lines 96-98
connect_input(st) ==
    With(input(st), LAMBDA i :
    With([i.st EXCEPT !.locals.input_id = i.device_id,
                      !.locals.input_port_id = i.port_id], LAMBDA s :
        IF i.device_id = None THEN continue(s)
        ELSE [s EXCEPT !.pc = "connect_make"]))

\* a variant of connect_make that takes no notice of the status of
\* make_connection
connect_make_unchecked(st) ==
    statement_end(advance(make_connection(st, st.locals.output_id,
                                          st.locals.output_port_id,
                                          st.locals.input_id,
                                          st.locals.input_port_id).st))

\* lines 99-104 and 131-133
connect_make(st) ==
    With(make_connection(st, st.locals.output_id, st.locals.output_port_id,
                         st.locals.input_id, st.locals.input_port_id),
         LAMBDA m :
        IF m.error_type = "INPUT_CONNECTED"
        THEN continue(error(m.st, "Input is already in a connection"))
        ELSE statement_end(advance(m.st)))

\* lines 61, 106-108
monitor_start(st) == [advance(advance(st)) EXCEPT !.pc = "monitor_loop"]

\* a variant of monitor_output that goes on with the statement when the
\* output is monitored already
monitor_output_unchecked(st) ==
    With(output(st), LAMBDA o :
        IF o.device_id = None THEN continue(set_output(o))
        ELSE make_monitor(set_output(o), o.device_id, o.port_id).st)

\* lines 109-119, one iteration of the while loop
monitor_output(st) ==
    With(output(st), LAMBDA o :
        IF o.device_id = None THEN continue(set_output(o))
        ELSE With(make_monitor(set_output(o), o.device_id, o.port_id), LAMBDA m :
            IF m.error_type = "MONITOR_PRESENT"
            THEN continue(error(m.st,
                     "A monitor has already been placed at this output port."))
            ELSE m.st))

\* the while loop of line 109 ends; lines 120-121 and 131-133
monitor_end(st) == statement_end(st)

\* a variant of read_EOF with continue in the place of break
read_EOF_continue(st) ==
    continue(display_error(advance(st), Message("Expected END at end of file"),
                           FALSE))

\* lines 61, 123-125
read_EOF(st) ==
    [display_error(advance(st), Message("Expected END at end of file"), FALSE)
        EXCEPT !.pc = "check"]

\* lines 61, 127-129
invalid_start(st) ==
    continue(error(advance(st), "Invalid symbol for start of line."))

\* a variant of floating_inputs_list that names the devices only
floating_devices_list(st, floating_inputs) ==
    [k \in 1..Len(floating_inputs) |->
        get_name_string(st.names_list, floating_inputs[k][1])]

\* lines 138-141: the strings device + "." + port of the floating inputs
floating_inputs_list(st, floating_inputs) ==
    [k \in 1..Len(floating_inputs) |->
        get_name_string(st.names_list, floating_inputs[k][1]) \o S.dot
        \o get_name_string(st.names_list, floating_inputs[k][2])]

\* a variant of report_floating that names the first floating input only
report_first(st, floating_inputs) ==
    IF Len(floating_inputs) # 0
    THEN display_error(st,
             [text |-> "The following inputs are floating: ",
              args |-> floating_inputs_list(st, <<floating_inputs[1]>>)],
             FALSE)
    ELSE st

\* lines 135-143
report_floating(st, floating_inputs) ==
    IF Len(floating_inputs) # 0
    THEN display_error(st,
             [text |-> "The following inputs are floating: ",
              args |-> floating_inputs_list(st, floating_inputs)],
             FALSE)
    ELSE st

\* a variant of finish that decides the return value before the floating
\* inputs are reported
finish_unreported(st) ==
    [report_floating(st, check_network(st))
        EXCEPT !.pc = "done", !.result = <<st.error_count = 0>>]

\* lines 135-154
finish(st) ==
    With(report_floating(st, check_network(st)), LAMBDA s :
        [s EXCEPT !.pc = "done", !.result = <<s.error_count = 0>>])

\* one step of parse_network from the state st
parse_step(st) ==
    IF at(st, "END") THEN read_END(st)
    ELSE IF at(st, "define") THEN define_names(st)
    ELSE IF at(st, "connect") THEN connect_output(st)
    ELSE IF at(st, "monitor") THEN monitor_start(st)
    ELSE IF at(st, "EOF") THEN read_EOF(st)
    ELSE IF at(st, "other") THEN invalid_start(st)
    ELSE IF st.pc = "device" THEN define_device(st)
    ELSE IF st.pc = "connect_to" THEN connect_to(st)
    ELSE IF st.pc = "connect_input" THEN connect_input(st)
    ELSE IF st.pc = "connect_make" THEN connect_make(st)
    ELSE IF st.pc = "monitor_loop" /\ ~symbol_is(st, S.semi) THEN monitor_output(st)
    ELSE IF st.pc = "monitor_loop" THEN monitor_end(st)
    ELSE IF st.pc = "check" THEN finish(st)
    ELSE st

RECURSIVE run(_)
\* the state in which parse_network returns when it is entered in state st
run(st) == IF parse_step(st) = st THEN st ELSE run(parse_step(st))

(***************************************************************************)
(* Definition files.                                                       *)
(***************************************************************************)
RECURSIVE Text(_)
\* the words joined by single spaces
Text(words) ==
    IF Len(words) = 0 THEN <<>>
    ELSE IF Len(words) = 1 THEN words[1]
    ELSE words[1] \o <<" ">> \o Text(Tail(words))

\* a statement: its words, then the semicolon
Stmt(words) == Text(words) \o S.semi

\* a port reference, device "." port
Ref(device_name, port_name) == device_name \o S.dot \o port_name

\* the input port name "I<k>"
Port(k) == S.I \o str(k)

RECURSIVE Lines(_)
\* the texts, each on a line of its own
Lines(texts) ==
    IF Len(texts) = 0 THEN <<>>
    ELSE Head(texts) \o <<"\n">> \o Lines(Tail(texts))

Separators == {<<" ">>, <<"\n">>}

\* the words that follow 'as' in a definition of each kind of device
KindWords ==
    [SWITCH |-> <<S.SWITCH, S.one, S.state>>,
     AND    |-> <<S.AND, <<"2">>, S.inputs>>,
     NAND   |-> <<S.NAND, <<"2">>, S.inputs>>,
     OR     |-> <<S.OR, <<"2">>, S.inputs>>,
     NOR    |-> <<S.NOR, <<"2">>, S.inputs>>,
     XOR    |-> <<S.XOR>>,
     CLOCK  |-> <<S.CLOCK, S.period, <<"4">> >>,
     DTYPE  |-> <<S.DTYPE>>,
     SIGGEN |-> <<S.SIGGEN, S.one, S.for, <<"2">>, S.cycles, S.waveform>>]

Kinds == DOMAIN KindWords

\* define <names> as <kind ...>;
Define(device_names, kind) ==
    Stmt(<<S.define>> \o device_names \o <<S.as>> \o KindWords[kind])

\* two switches A and B and a NAND gate G with n inputs
Preamble(n) ==
    Lines(<< Stmt(<<S.define, <<"A">>, <<"B">>, S.as, S.SWITCH, S.one, S.state>>),
             Stmt(<<S.define, <<"G">>, S.as, S.NAND, str(n), S.inputs>>) >>)

\* The statements, well formed and not, that the general family draws from.
Fragments ==
    << Stmt(<<S.connect, <<"A">>, S.to, Ref(<<"G">>, Port(1))>>),
       Stmt(<<S.connect, <<"B">>, S.to, Ref(<<"G">>, Port(2))>>),
       Stmt(<<S.monitor, <<"G">>, <<"A">> >>),
       Text(<<S.monitor, <<"B">> >>),
       Text(<<S.define, <<"H">>, S.as>>) \o <<"\n">> \o Stmt(<<<<"F">>, <<"1">> >>),
       <<"#", "c", "#">>,
       S.semi >>

MaxStatements == 2

RECURSIVE Bodies(_)
\* the texts of at most n fragments, each followed by a separator
Bodies(n) ==
    IF n = 0 THEN {<<>>}
    ELSE Bodies(n - 1) \cup
         { b \o Fragments[i] \o s :
             b \in Bodies(n - 1), i \in 1..Len(Fragments), s \in Separators }

\* the file ends with END, or without it
Endings == {S.END, <<>>}

GeneralSources ==
    { Preamble(2) \o b \o e : b \in Bodies(MaxStatements), e \in Endings }

\* files that begin with blank lines, and files with no statement at all
BlankSources ==
    { <<"\n">> \o Fragments[i] \o s \o e :
        i \in 1..Len(Fragments), s \in Separators, e \in Endings }
    \cup { <<>>, <<" ">>, <<"\n", "\n">>, <<"#">>, <<"#", "c">> }

\* connect A <token> G.I1; then monitor G; on the same line or the next,
\* after a preamble whose gate has n inputs.  The token 'to' gives the
\* well-formed file.
ToSource(token, separator, n) ==
    Preamble(n)
    \o Stmt(<<S.connect, <<"A">>, token, Ref(<<"G">>, Port(1))>>) \o separator
    \o Lines(<<Stmt(<<S.monitor, <<"G">> >>)>>) \o S.END

\* single tokens other than 'to': a name, punctuation, keywords, a number,
\* a character that starts no symbol
OtherTokens == {<<"x">>, S.semi, S.dot, S.as, S.monitor, <<"7">>, <<"?">>}

ToCases == [token : OtherTokens, separator : Separators, n : {1, 2}]

ToSources == { ToSource(c.token, c.separator, c.n) : c \in ToCases }

\* statements in which the parser finds an error
BadStatements ==
    << Stmt(<<S.connect, <<"A">>, <<"x">>, Ref(<<"G">>, Port(1))>>),
       Stmt(<<S.define, <<"1">>, S.as, S.XOR>>),
       Stmt(<<S.monitor, <<"U">> >>),
       Stmt(<< <<"F">> >>),
       Stmt(<<S.connect, <<"A">>, S.to, Ref(<<"G">>, Port(9))>>),
       Stmt(<<S.define, <<"H">>, S.as, S.NAND, S.zero, S.inputs>>),
       Stmt(<<S.monitor, <<"G">>, <<"G">> >>),
       Text(<<S.connect, <<"A">>, S.to, Ref(<<"G">>, Port(1))>>),
       Text(<<S.define, <<"H">>, S.as>>) \o <<"\n">> \o Stmt(<< <<"F">> >>) >>

\* well-formed statements, one of each kind
Probes ==
    [define  |-> Define(<< <<"Z">> >>, "XOR"),
     connect |-> Stmt(<<S.connect, <<"B">>, S.to, Ref(<<"G">>, Port(2))>>),
     monitor |-> Stmt(<<S.monitor, <<"B">> >>)]

\* a statement with an error, then a well-formed statement on the same line
\* or on the next
RecoverySource(bad, separator, probe) ==
    Preamble(2) \o BadStatements[bad] \o separator
    \o Lines(<<Probes[probe]>>) \o S.END

RecoveryCases ==
    [bad : 1..Len(BadStatements), separator : Separators, probe : DOMAIN Probes]

RecoverySources ==
    { RecoverySource(c.bad, c.separator, c.probe) : c \in RecoveryCases }

\* the file of the single-gate example
GateSource ==
    Stmt(<<S.define, <<"G", "1">>, S.as, S.NAND, <<"2">>, S.inputs>>)
    \o <<" ">> \o S.END

\* a name defined by an earlier statement and defined again, or named twice
\* in one name list
RedefinitionSources ==
    { Lines(<<Define(<< <<"Z">> >>, first), Define(<< <<"Z">> >>, second)>>)
      \o S.END : first \in {"SWITCH", "DTYPE"}, second \in Kinds }
    \cup { Lines(<<Define(<< <<"Z">>, <<"Z">> >>, kind)>>) \o S.END :
             kind \in Kinds }

\* output references: of a switch, a gate, an XOR, a DTYPE, an undefined name
OutputRefs ==
    { <<"A">>, <<"G">>, <<"X">>, <<"D">>, <<"U">>, S.Q,
      Ref(<<"A">>, S.Q), Ref(<<"G">>, Port(1)), Ref(<<"X">>, S.QBAR),
      Ref(<<"D">>, S.Q), Ref(<<"D">>, S.QBAR), Ref(<<"D">>, S.DATA),
      Ref(<<"D">>, <<"x">>), Ref(<<"U">>, S.Q), Ref(<<"D">>, S.semi) }

\* input references
InputRefs ==
    { Ref(<<"G">>, Port(1)), Ref(<<"G">>, Port(2)), Ref(<<"G">>, Port(3)),
      Ref(<<"G">>, Port(17)), Ref(<<"G">>, <<"I", "0", "1">>),
      Ref(<<"G">>, S.DATA), Ref(<<"G">>, <<"x">>), Ref(<<"G">>, S.semi),
      <<"G">>, Text(<<<<"G">>, Port(1)>>),
      Ref(<<"X">>, Port(1)), Ref(<<"X">>, Port(2)), Ref(<<"X">>, Port(3)),
      Ref(<<"X">>, S.CLK),
      Ref(<<"D">>, S.DATA), Ref(<<"D">>, S.CLK), Ref(<<"D">>, S.SET),
      Ref(<<"D">>, S.CLEAR), Ref(<<"D">>, Port(1)), Ref(<<"D">>, S.Q),
      Ref(<<"A">>, Port(1)), Ref(<<"A">>, S.SET),
      Ref(<<"U">>, Port(1)), Ref(<<"U">>, S.DATA), S.to }

\* the devices the references are made to
ReferencePreamble ==
    Preamble(2)
    \o Lines(<<Define(<< <<"D">> >>, "DTYPE"), Define(<< <<"X">> >>, "XOR")>>)

ReferenceSources ==
    { ReferencePreamble
      \o Lines(<<Stmt(<<S.connect, r, S.to, Ref(<<"G">>, Port(1))>>)>>) \o S.END :
        r \in OutputRefs }
    \cup { ReferencePreamble \o Lines(<<Stmt(<<S.monitor, r>>)>>) \o S.END :
             r \in OutputRefs }
    \cup { ReferencePreamble
           \o Lines(<<Stmt(<<S.connect, <<"A">>, S.to, r>>)>>) \o S.END :
             r \in InputRefs }

\* connect A to G.I1; then a second connection to the same input, from the
\* same output or from another, then monitor G; on the same line or the next
ConnectionSource(second, separator) ==
    Preamble(2)
    \o Lines(<<Stmt(<<S.connect, <<"A">>, S.to, Ref(<<"G">>, Port(1))>>)>>)
    \o Stmt(<<S.connect, second, S.to, Ref(<<"G">>, Port(1))>>) \o separator
    \o Lines(<<Stmt(<<S.connect, <<"B">>, S.to, Ref(<<"G">>, Port(2))>>),
               Stmt(<<S.monitor, <<"G">> >>)>>) \o S.END

ConnectionSources ==
    { ConnectionSource(second, separator) :
        second \in {<<"A">>, <<"B">>, <<"G">>}, separator \in Separators }

\* output references that a monitor statement accepts ahead of the one in
\* error, the references in error (A is monitored by an earlier statement),
\* and those that follow it
MonitorBefore == { <<>>, << <<"B">> >>, << <<"B">>, Ref(<<"D">>, S.Q) >> }
MonitorBad ==
    { <<"A">>, <<"U">>, <<"D">>, Ref(<<"A">>, S.Q), Ref(<<"D">>, S.DATA) }
MonitorAfter == { <<>>, << <<"G">> >>, << <<"G">>, <<"X">> >> }

\* monitor A; then a monitor statement with a reference in error, the
\* references after it on the same line or on the next
MonitorSource(before, bad, separator, after) ==
    ReferencePreamble
    \o Lines(<< Stmt(<<S.monitor, <<"A">> >>),
                Text(<<S.monitor>> \o before \o <<bad>>) \o separator
                \o Stmt(after) >>)
    \o S.END

MonitorCases ==
    [before : MonitorBefore, bad : MonitorBad, separator : Separators,
     after : MonitorAfter]

MonitorSources ==
    { MonitorSource(c.before, c.bad, c.separator, c.after) : c \in MonitorCases }

\* qualifiers of a gate or a clock: in range, out of range, with leading
\* zeros, and no number
QualifierTokens ==
    { S.zero, S.one, <<"2">>, <<"3">>, <<"1", "6">>, <<"1", "7">>,
      <<"0", "1", "6">>, <<"0", "0">>, <<"x">>, S.semi }

\* the words of a definition of the given kind with the given qualifier
QualifiedWords(kind, token) ==
    IF kind = "CLOCK" THEN <<S.CLOCK, S.period, token>>
    ELSE <<KindWords[kind][1], token, S.inputs>>

\* a definition of the names with the qualifier, in a file that has or has
\* not defined P as a switch before it
QualifierSource(defined, device_names, kind, token) ==
    (IF defined THEN Lines(<<Define(<< <<"P">> >>, "SWITCH")>>) ELSE <<>>)
    \o Lines(<<Stmt(<<S.define>> \o device_names \o <<S.as>>
                    \o QualifiedWords(kind, token))>>)
    \o S.END

QualifierCases ==
    [defined : BOOLEAN, device_names : { << <<"P">> >>, << <<"P">>, <<"Q">> >> },
     kind : {"AND", "NAND", "OR", "NOR", "CLOCK"}, token : QualifierTokens]

QualifierSources ==
    { QualifierSource(c.defined, c.device_names, c.kind, c.token) :
        c \in QualifierCases }

\* the segments of a SIGGEN definition, each <<level, number of cycles>> as
\* written: none, one, and a well-formed one followed by another
SegmentLevels == { S.zero, S.one, <<"2">>, <<"x">> }
SegmentCycles == { S.zero, S.one, <<"2">>, <<"3">>, <<"0", "2">>, <<"x">> }
SegmentLists ==
    { <<>> }
    \cup { << <<l, n>> >> : l \in SegmentLevels, n \in SegmentCycles }
    \cup { << first, <<l, n>> >> :
             first \in { <<S.one, <<"2">> >>, <<S.zero, S.one>> },
             l \in SegmentLevels, n \in SegmentCycles }

RECURSIVE SegmentWords(_)
\* <level> for <n> cycles, for each segment
SegmentWords(segments) ==
    IF segments = <<>> THEN <<>>
    ELSE <<Head(segments)[1], S.for, Head(segments)[2], S.cycles>>
         \o SegmentWords(Tail(segments))

\* define V W as SIGGEN <segments> waveform; END
SiggenSource(segments) ==
    Lines(<<Stmt(<<S.define, <<"V">>, <<"W">>, S.as, S.SIGGEN>>
                 \o SegmentWords(segments) \o <<S.waveform>>)>>)
    \o S.END

SiggenSources == { SiggenSource(segments) : segments \in SegmentLists }

\* a switch A, a monitor statement with no output between the keyword and
\* the semicolon, then a monitor of A
EmptyMonitorSources ==
    { Lines(<< Stmt(<<S.define, <<"A">>, S.as, S.SWITCH, S.one, S.state>>),
               S.monitor \o separator \o S.semi,
               Stmt(<<S.monitor, <<"A">> >>) >>) \o S.END :
          separator \in Separators \cup { <<>> } }

Sources ==
    GeneralSources \cup BlankSources \cup ToSources \cup RecoverySources
    \cup {GateSource} \cup RedefinitionSources \cup ReferenceSources
    \cup ConnectionSources \cup MonitorSources \cup QualifierSources
    \cup SiggenSources \cup EmptyMonitorSources

(***************************************************************************)
(* The state machine.                                                      *)
(***************************************************************************)
\* the names interned by the constructors of Scanner and Devices
initial_names_list == keywords_list \o <<S.SIGGEN>>

\* the state after Names(), Scanner(path, names), Devices, Network,
\* Monitors and Parser have been constructed on the file f
InitState(f) ==
    [file |-> f, pos |-> 0, current_character |-> "", error_count |-> 0,
     last_semicolon_pos |-> 0, last_last_semicolon_pos |-> 0,
     last_comment_pos |-> 0, error_message_list |-> <<>>,
     names_list |-> initial_names_list, error_code_count |-> 0,
     devices_list |-> <<>>,
     monitors_dictionary |-> <<>>, histories |-> <<>>, signals |-> <<>>,
     cycles_completed |-> 0, spin_value |-> 0,
     current_symbol |-> [type |-> None, id |-> None, pos |-> None],
     pc |-> "start",
     locals |-> [name_ids |-> <<>>, output_id |-> None, output_port_id |-> None,
                 input_id |-> None, input_port_id |-> None],
     reads |-> 0, result |-> <<>>]

State ==
    [file |-> file, pos |-> pos, current_character |-> current_character,
     error_count |-> error_count, last_semicolon_pos |-> last_semicolon_pos,
     last_last_semicolon_pos |-> last_last_semicolon_pos,
     last_comment_pos |-> last_comment_pos,
     error_message_list |-> error_message_list, names_list |-> names_list,
     error_code_count |-> error_code_count,
     devices_list |-> devices_list, monitors_dictionary |-> monitors_dictionary,
     histories |-> histories, signals |-> signals,
     cycles_completed |-> cycles_completed, spin_value |-> spin_value,
     current_symbol |-> current_symbol, pc |-> pc, locals |-> locals,
     reads |-> reads, result |-> result]

\* the variables take the values of the record n
Becomes(n) ==
    /\ file' = n.file
    /\ pos' = n.pos
    /\ current_character' = n.current_character
    /\ error_count' = n.error_count
    /\ last_semicolon_pos' = n.last_semicolon_pos
    /\ last_last_semicolon_pos' = n.last_last_semicolon_pos
    /\ last_comment_pos' = n.last_comment_pos
    /\ error_message_list' = n.error_message_list
    /\ names_list' = n.names_list
    /\ error_code_count' = n.error_code_count
    /\ devices_list' = n.devices_list
    /\ monitors_dictionary' = n.monitors_dictionary
    /\ histories' = n.histories
    /\ signals' = n.signals
    /\ cycles_completed' = n.cycles_completed
    /\ spin_value' = n.spin_value
    /\ current_symbol' = n.current_symbol
    /\ pc' = n.pc
    /\ locals' = n.locals
    /\ reads' = n.reads
    /\ result' = n.result

\* the program takes the step op: the variables become op(State)
Does(op(_)) == \E n \in {op(State)} : Becomes(n)

\* the variables have the values of the record n
Is(n) ==
    /\ file = n.file
    /\ pos = n.pos
    /\ current_character = n.current_character
    /\ error_count = n.error_count
    /\ last_semicolon_pos = n.last_semicolon_pos
    /\ last_last_semicolon_pos = n.last_last_semicolon_pos
    /\ last_comment_pos = n.last_comment_pos
    /\ error_message_list = n.error_message_list
    /\ names_list = n.names_list
    /\ error_code_count = n.error_code_count
    /\ devices_list = n.devices_list
    /\ monitors_dictionary = n.monitors_dictionary
    /\ histories = n.histories
    /\ signals = n.signals
    /\ cycles_completed = n.cycles_completed
    /\ spin_value = n.spin_value
    /\ current_symbol = n.current_symbol
    /\ pc = n.pc
    /\ locals = n.locals
    /\ reads = n.reads
    /\ result = n.result

\* parse_network as a function of the definition file: the final state
parse_network(f) == run(InitState(f))

Init == \E f \in Sources : Is(InitState(f))

ReadEND == at(State, "END") /\ Does(read_END)

DefineNames == at(State, "define") /\ Does(define_names)

DefineDevice == pc = "device" /\ Does(define_device)

ConnectOutput == at(State, "connect") /\ Does(connect_output)

ConnectTo == pc = "connect_to" /\ Does(connect_to)

ConnectInput == pc = "connect_input" /\ Does(connect_input)

ConnectMake == pc = "connect_make" /\ Does(connect_make)

MonitorStart == at(State, "monitor") /\ Does(monitor_start)

MonitorOutput ==
    pc = "monitor_loop" /\ ~symbol_is(State, S.semi) /\ Does(monitor_output)

MonitorEnd ==
    pc = "monitor_loop" /\ symbol_is(State, S.semi) /\ Does(monitor_end)

ReadEOF == at(State, "EOF") /\ Does(read_EOF)

InvalidStart == at(State, "other") /\ Does(invalid_start)

Finish == pc = "check" /\ Does(finish)

Next ==
    \/ ReadEND
    \/ DefineNames
    \/ DefineDevice
    \/ ConnectOutput
    \/ ConnectTo
    \/ ConnectInput
    \/ ConnectMake
    \/ MonitorStart
    \/ MonitorOutput
    \/ MonitorEnd
    \/ ReadEOF
    \/ InvalidStart
    \/ Finish

Spec == Init /\ [][Next]_vars

\* every step that can be taken is eventually taken: parse_network runs on
FairSpec == Init /\ [][Next]_vars /\ WF_vars(Next)

(***************************************************************************)
(* The scanner on its own, as test_scanner.py drives it: a Names and a     *)
(* Scanner are constructed on a file, then get_symbol and display_error    *)
(* are called; locals.symbols holds the (type, id) of the symbols that     *)
(* get_symbol has returned.                                                *)
(***************************************************************************)
\* the line of the tokenizing example
ExampleSource ==
    <<"d", "e", "f", "i", "n", "e", " ", "S", "W", "1", " ", "a", "s", " ", "S", "W", "I", "T", "C", "H", " ", "0", " ", "s", "t", "a", "t", "e", ";">>

\* texts without comments: runs of letters and digits, punctuation, and
\* characters that start no symbol
TokenSources ==
    { <<"a", "b", "1", " ", "1", "2", "a", "b", ".", ";">>,
      <<"a", "_", "b", "?">>,
      <<"1", "a", "2", " ", "E", "N", "D", " ", "e", "n", "d">>,
      <<"S", "I", "G", "G", "E", "N", " ", "x", "\n", "\t", "y">>,
      <<"0", "1", " ", "1", ";", ";">>,
      <<"x", ".", ".", "7">>,
      <<"C", "L", "K", "2", " ", "t", "o">> }

\* texts of white space and comments only; the last two leave a comment
\* open
BlankCommentSources ==
    { <<>>,
      <<" ">>,
      <<" ", "\n", "\t">>,
      <<"#", "c", "#">>,
      <<"#", " ", "a", "\n", "b", " ", "#", "\n">>,
      <<"#", "c", "#", "#", "d", "#">>,
      <<" ", "#", "c", "#", " ", "\n", "#", "d", "#", " ">>,
      <<"#", "#">>,
      <<"#", "c">>,
      <<"#", "c", "#", "\n", "#">> }

\* texts without comments, into which a comment is inserted
CommentBases ==
    { <<"d", "e", "f", "i", "n", "e", " ", "A", " ", "a", "s", " ", "X", "O", "R", ";">>,
      <<"A", ".", "Q", " ", "1", "2", ";", "x">>,
      <<"a", " ", "b", "\n", "E", "N", "D">> }

\* block comments: on one line, over two lines, two back to back, empty,
\* and one whose text holds symbols
BlockComments ==
    { <<"#", "c", "#">>,
      <<"#", "a", "\n", "b", "#">>,
      <<"#", "c", "#", "#", "d", "#">>,
      <<"#", "#">>,
      <<"#", " ", ";", " ", "x", " ", ".", " ", "1", "#">> }

\* line comments: to the end of the line, and one the file ends in
LineComments ==
    { <<"%", "c", "\n">>,
      <<"%", " ", ";", " ", "x", "\n">>,
      <<"%">> }

\* texts of several lines, on which display_error is called: statements
\* on one line and over two, blank lines, comments
ReportSources ==
    { <<"a", " ", "b", ";", "\n", "c", " ", "d", ";", "\n", "e">>,
      <<"\n", "x", " ", "y", "\n", "z">>,
      <<"a", "\n", "b", " ", "c", "\n", "d">>,
      <<"a", ";", " ", "#", "c", "#", " ", "b", "\n", "c">>,
      <<"a", " ", "b", " ", "#", "c", "\n", "d", "#", " ", "e", "\n", "f", ";", "g">>,
      <<"x", ";", "y", ";", "\n", "z">>,
      <<"a", ";", "\n", "\n", " ", "b", " ", "c", "\n", " ", "d">>,
      <<"x", " ", "y", "z">> }

\* the offsets of a text at which white space may be inserted without
\* cutting a run of letters and digits
Boundaries(text) ==
    { i \in 0..Len(text) :
        ~(i > 0 /\ i < Len(text) /\ isalnum(text[i]) /\ isalnum(text[i + 1])) }

\* the text with the comment inserted at offset i
Inserted(text, i, comment) ==
    SubSeq(text, 1, i) \o comment \o SubSeq(text, i + 1, Len(text))

CommentCases ==
    { c \in [base : CommentBases, at : 0..16, comment : BlockComments] :
        c.at \in Boundaries(c.base) }

BlockCommentSources ==
    { Inserted(c.base, c.at, c.comment) : c \in CommentCases }

\* a line comment that has no line break of its own stands at the end of
\* a line
LineCommentCases ==
    { c \in [base : CommentBases, at : 0..16, comment : LineComments] :
        /\ c.at \in Boundaries(c.base)
        /\ \/ c.comment[Len(c.comment)] = "\n"
           \/ c.at = Len(c.base)
           \/ c.base[c.at + 1] = "\n" }

LineCommentSources ==
    { Inserted(c.base, c.at, c.comment) : c \in LineCommentCases }

ScanSources ==
    {ExampleSource} \cup TokenSources \cup BlankCommentSources \cup CommentBases
    \cup BlockCommentSources \cup LineCommentSources \cup ReportSources

\* the state after Names() and Scanner(path, names) on the file f
ScanState(f) ==
    [InitState(f) EXCEPT !.names_list = keywords_list, !.pc = "scan",
                         !.locals = [symbols |-> <<>>, caret |-> FALSE,
                                     error_position |-> 0]]

\* symbol = scanner.get_symbol(), the symbol kept in locals.symbols
next_symbol(st) ==
    With(advance(st), LAMBDA s :
        [s EXCEPT !.pc = "scan",
                  !.locals.symbols =
                      Append(s.locals.symbols,
                             <<s.current_symbol.type, s.current_symbol.id>>)])

\* scanner.display_error("error_message", caret)
\* locals keeps caret and error_position, the read position on entry
report(st, caret) ==
    [display_error(st, Message("error_message"), caret)
        EXCEPT !.pc = "reported", !.locals.caret = caret,
               !.locals.error_position = st.pos]

report_caret(st) == report(st, TRUE)
report_message(st) == report(st, FALSE)

\* a message that is no string: the 12 of test_display_error_raises_exceptions
NotText == [number |-> 12]

\* scanner.display_error(12), which raises TypeError
report_number(st) ==
    [display_error(st, NotText, TRUE)
        EXCEPT !.pc = "raised", !.locals.caret = TRUE,
               !.locals.error_position = st.pos]

\* the last two symbols returned are both EOF
ended(st) ==
    LET h == st.locals.symbols
    IN  /\ Len(h) >= 2
        /\ h[Len(h)][1] = EOF /\ h[Len(h) - 1][1] = EOF

RECURSIVE scan(_)
\* get_symbol called until it has returned EOF twice
scan(st) == IF ended(st) THEN st ELSE scan(next_symbol(st))

\* the (type, id) of the symbols of the text f, two EOF at the end
symbols(f) == scan(ScanState(f)).locals.symbols

\* the number of display_error calls the scanner is followed through
MaxReports == 1

ScanInit == \E f \in ScanSources : Is(ScanState(f))

GetSymbol ==
    /\ pc \in {"reported", "raised"} \/ (pc = "scan" /\ ~ended(State))
    /\ Does(next_symbol)

DisplayErrorCaret ==
    /\ pc \in {"scan", "reported", "raised"}
    /\ file \in ReportSources \cup BlankCommentSources
    /\ error_count < MaxReports
    /\ Does(report_caret)

DisplayErrorMessage ==
    /\ pc \in {"scan", "reported", "raised"}
    /\ file \in ReportSources \cup BlankCommentSources
    /\ error_count < MaxReports
    /\ Does(report_message)

DisplayErrorNumber ==
    /\ pc \in {"scan", "reported", "raised"}
    /\ file \in ReportSources \cup BlankCommentSources
    /\ error_count < MaxReports
    /\ Does(report_number)

ScanNext ==
    GetSymbol \/ DisplayErrorCaret \/ DisplayErrorMessage
    \/ DisplayErrorNumber

ScanSpec == ScanInit /\ [][ScanNext]_vars

(***************************************************************************)
(* The names table on its own: Names() and then calls of lookup, query,    *)
(* get_name_string and unique_error_codes in any order, as test_names.py   *)
(* makes them.  pc is the method that returned last, or the exception      *)
(* raised; result is what it returned; locals keeps the method called, its *)
(* argument and the ranges unique_error_codes has returned so far.         *)
(***************************************************************************)
\* the strings given to the table; the empty string is a str as well
NameStrings == { <<"a">>, <<"b">>, <<>> }

\* the longest list given to lookup
MaxList == 2

\* the float 1.4 as an item of a list: not a str (a str is a tuple of
\* characters)
Number == <<"1.4">>

isinstance_str(item) == item # Number

\* the lists with an item that is not a string, alone, after a string and
\* before a string
MixedLists ==
    { <<Number>> } \cup { <<string, Number>> : string \in NameStrings }
    \cup { <<Number, string>> : string \in NameStrings }

\* the lists given to lookup: of strings, with and without repetitions,
\* and with an item that is not a string
NameLists == UNION { [1..n -> NameStrings] : n \in 0..MaxList } \cup MixedLists

\* the ids given to get_name_string: negative, issued, and beyond the table
NameIds == (-2)..4

\* the numbers given to unique_error_codes
CodeCounts == (-1)..3

\* the error codes issued before unique_error_codes is no longer followed
MaxCodes == 4

\* the state after Names()
NamesState ==
    [InitState(<<>>) EXCEPT !.names_list = <<>>, !.pc = "Names",
                            !.locals = [method |-> "", argument |-> None,
                                        ranges |-> <<>>]]

\* name_id_list = names.lookup(name_string_list)
\* name_id_list = names.lookup(name_string_list); the items before the
\* first that is not a string have been looked up when TypeError is raised
names_lookup(st, name_string_list) ==
    LET others == { k \in 1..Len(name_string_list) :
                       ~isinstance_str(name_string_list[k]) }
        first == CHOOSE k \in others : \A j \in others : k <= j
    IN  IF others # {}
        THEN [st EXCEPT !.names_list =
                            lookup(st.names_list,
                                   SubSeq(name_string_list, 1, first - 1)).names_list,
                        !.pc = "TypeError", !.locals.method = "lookup",
                        !.locals.argument = name_string_list]
        ELSE With(lookup(st.names_list, name_string_list), LAMBDA r :
            [st EXCEPT !.names_list = r.names_list, !.result = r.ids,
                       !.pc = "lookup", !.locals.method = "lookup",
                       !.locals.argument = name_string_list])

\* a variant of names_query that interns a string it does not find
names_query_interning(st, name_string) ==
    With(lookup1(st.names_list, name_string), LAMBDA l :
        [st EXCEPT !.names_list = l.names_list,
                   !.result = query(st.names_list, name_string),
                   !.pc = "query", !.locals.method = "query",
                   !.locals.argument = name_string])

\* name_id = names.query(name_string)
names_query(st, name_string) ==
    [st EXCEPT !.result = query(st.names_list, name_string),
               !.pc = "query", !.locals.method = "query",
               !.locals.argument = name_string]

\* name_string = names.get_name_string(name_id), for an int: ValueError for
\* a negative one
names_get_name_string(st, name_id) ==
    IF name_id >= 0
    THEN [st EXCEPT !.result = get_name_string(st.names_list, name_id),
                    !.pc = "get_name_string",
                    !.locals.method = "get_name_string",
                    !.locals.argument = name_id]
    ELSE [st EXCEPT !.result = None, !.pc = "ValueError",
                    !.locals.method = "get_name_string",
                    !.locals.argument = name_id]

\* a variant of unique_error_codes that counts every range from 0
unique_error_codes_from_zero(st, num_error_codes) ==
    IF num_error_codes <= 0
    THEN [st EXCEPT !.result = None, !.pc = "ValueError",
                    !.locals.method = "unique_error_codes",
                    !.locals.argument = num_error_codes]
    ELSE [st EXCEPT !.error_code_count = num_error_codes,
                    !.result = <<0, num_error_codes>>,
                    !.pc = "unique_error_codes",
                    !.locals.method = "unique_error_codes",
                    !.locals.argument = num_error_codes,
                    !.locals.ranges =
                        Append(st.locals.ranges, <<0, num_error_codes>>)]

\* names.unique_error_codes(num_error_codes), for an int: ValueError for
\* one that is not positive, else range(first, stop) as <<first, stop>>
unique_error_codes(st, num_error_codes) ==
    IF num_error_codes <= 0
    THEN [st EXCEPT !.result = None, !.pc = "ValueError",
                    !.locals.method = "unique_error_codes",
                    !.locals.argument = num_error_codes]
    ELSE With(st.error_code_count + num_error_codes, LAMBDA count :
        [st EXCEPT !.error_code_count = count,
                   !.result = <<count - num_error_codes, count>>,
                   !.pc = "unique_error_codes",
                   !.locals.method = "unique_error_codes",
                   !.locals.argument = num_error_codes,
                   !.locals.ranges =
                       Append(st.locals.ranges,
                              <<count - num_error_codes, count>>)])

NamesInit == Is(NamesState)

Lookup ==
    \E name_string_list \in NameLists :
        Does(LAMBDA st : names_lookup(st, name_string_list))

Query ==
    \E name_string \in NameStrings :
        Does(LAMBDA st : names_query(st, name_string))

GetNameString ==
    \E name_id \in NameIds :
        Does(LAMBDA st : names_get_name_string(st, name_id))

UniqueErrorCodes ==
    \E num_error_codes \in CodeCounts :
        /\ error_code_count + num_error_codes <= MaxCodes
        /\ Does(LAMBDA st : unique_error_codes(st, num_error_codes))

NamesNext == Lookup \/ Query \/ GetNameString \/ UniqueErrorCodes

NamesSpec == NamesInit /\ [][NamesNext]_vars

(***************************************************************************)
(* Gui.  The requests of the user on a network that was parsed without an  *)
(* error: each handler is an operator from the state before the request to *)
(* the state after it.  locals holds the request, the calls it made to     *)
(* execute_network and record_signals, and what run_network returned.      *)
(***************************************************************************)
MaxSpin == 2

\* the most outputs that are monitored at a time
MaxMonitors == 2

\* the longest history a Continue request is given room for
MaxCycles == 3

\* a switch SW, a clock CK of period 2 and a NAND gate G of CK, SW and
\* G itself: the cycle oscillates when CK and SW are both high.  G is
\* monitored.
FeedbackSource(level) ==
    Lines(<< Stmt(<<S.define, <<"S", "W">>, S.as, S.SWITCH, level, S.state>>),
             Stmt(<<S.define, <<"C", "K">>, S.as, S.CLOCK, S.period, <<"2">> >>),
             Stmt(<<S.define, <<"G">>, S.as, S.NAND, <<"3">>, S.inputs>>),
             Stmt(<<S.connect, <<"C", "K">>, S.to, Ref(<<"G">>, Port(1))>>),
             Stmt(<<S.connect, <<"S", "W">>, S.to, Ref(<<"G">>, Port(2))>>),
             Stmt(<<S.connect, <<"G">>, S.to, Ref(<<"G">>, Port(3))>>),
             Stmt(<<S.monitor, <<"G">> >>) >>) \o S.END

\* two switches at 1 and 0 into a NAND gate of two inputs; the gate and
\* the first switch are monitored
NandSource ==
    Lines(<< Stmt(<<S.define, <<"A">>, S.as, S.SWITCH, S.one, S.state>>),
             Stmt(<<S.define, <<"B">>, S.as, S.SWITCH, S.zero, S.state>>),
             Stmt(<<S.define, <<"G">>, S.as, S.NAND, <<"2">>, S.inputs>>),
             Stmt(<<S.connect, <<"A">>, S.to, Ref(<<"G">>, Port(1))>>),
             Stmt(<<S.connect, <<"B">>, S.to, Ref(<<"G">>, Port(2))>>),
             Stmt(<<S.monitor, <<"G">>, <<"A">> >>) >>) \o S.END

GuiSources == { FeedbackSource(S.one), NandSource }

\* the state a request starts in: no call made yet
request(st, handler) ==
    [st EXCEPT !.pc = "Gui",
               !.locals = [request |-> handler, calls |-> <<>>, ran |-> ""]]

\* Gui.__init__ on the network parse_network has built
GuiState(source) ==
    [request(run(InitState(source)), "__init__")
        EXCEPT !.cycles_completed = 0, !.spin_value = 0]

\* the display name of an output: the device, and the port after a dot
signal_name(st, key) ==
    get_name_string(st.names_list, key[1])
    \o (IF key[2] = None THEN <<>>
        ELSE S.dot \o get_name_string(st.names_list, key[2]))

\* every output of every device, in the order of devices_list
all_outputs(st) ==
    LET RECURSIVE from(_)
        from(i) ==
            IF i > Len(st.devices_list) THEN <<>>
            ELSE [k \in 1..Len(st.devices_list[i].outputs) |->
                     <<st.devices_list[i].device_id, st.devices_list[i].outputs[k]>>]
                 \o from(i + 1)
    IN  from(1)

is_monitored(st, key) ==
    \E i \in 1..Len(st.monitors_dictionary) : st.monitors_dictionary[i] = key

\* get_signal_names: the names of the monitored and of the other outputs
get_signal_names(st) ==
    LET names(keys) == [k \in 1..Len(keys) |-> signal_name(st, keys[k])]
    IN  << names(st.monitors_dictionary),
           names(SelectSeq(all_outputs(st), LAMBDA key : ~is_monitored(st, key))) >>

\* switches_id_list: the ids of the switches
switches_id_list(st) ==
    LET switches == SelectSeq(st.devices_list,
                              LAMBDA d : kind_of(st, d) = S.SWITCH)
    IN  [k \in 1..Len(switches) |-> switches[k].device_id]

\* lines 883-904
get_monitor_IDs(st, monitor_name) ==
    LET stops == { k \in 1..Len(monitor_name) : ~isalnum(monitor_name[k]) }
        stop == IF stops = {} THEN Len(monitor_name) + 1
                ELSE CHOOSE k \in stops : \A j \in stops : k <= j
        device_name == SubSeq(monitor_name, 1, stop - 1)
        port_name == SelectSeq(SubSeq(monitor_name, stop + 1, Len(monitor_name)),
                               isalnum)
    IN  << query(st.names_list, device_name),
           IF port_name = <<>> THEN None ELSE query(st.names_list, port_name) >>

\* a variant of run_network that records the signals of a failed cycle too
RECURSIVE run_network_recording(_, _)
run_network_recording(st0, cycles) ==
    With(st0, LAMBDA st :
        IF cycles = 0 THEN [st |-> st, ret |-> TRUE]
        ELSE With(execute_network(st), LAMBDA e :
            IF e.ret THEN run_network_recording(record_signals(e.st), cycles - 1)
            ELSE [st |-> record_signals(e.st), ret |-> FALSE]))

RECURSIVE run_network(_, _)
\* lines 942-956
run_network(st0, cycles) ==
    With(st0, LAMBDA st :
        IF cycles = 0 THEN [st |-> st, ret |-> TRUE]
        ELSE With(execute_network(st), LAMBDA e :
            IF e.ret THEN run_network(record_signals(e.st), cycles - 1)
            ELSE [st |-> e.st, ret |-> FALSE]))

\* what run_network returned, kept for the request
ran(r) == [r.st EXCEPT !.locals.ran = IF r.ret THEN "True" ELSE "False"]

\* lines 756-762
on_spin(st, value) ==
    [request(st, "on_spin") EXCEPT !.spin_value = value]

\* a variant of on_run_button that keeps the histories
on_run_button_keeping(st0) ==
    With([request(st0, "on_run_button") EXCEPT !.cycles_completed = 0],
         LAMBDA st :
    With(run_network(cold_startup(st), st.spin_value), LAMBDA r :
        IF r.ret THEN [ran(r) EXCEPT !.cycles_completed = @ + st.spin_value]
        ELSE ran(r)))

\* lines 764-781
on_run_button(st0) ==
    With([request(st0, "on_run_button") EXCEPT !.cycles_completed = 0],
         LAMBDA st :
    With(run_network(cold_startup(reset_monitors(st)), st.spin_value), LAMBDA r :
        IF r.ret THEN [ran(r) EXCEPT !.cycles_completed = @ + st.spin_value]
        ELSE ran(r)))

\* a variant of on_continue_button that counts the cycles once more
on_continue_button_twice(st0) ==
    With(request(st0, "on_continue_button"), LAMBDA st :
        IF st.cycles_completed = 0 THEN st
        ELSE With(run_network(st, st.spin_value), LAMBDA r :
            IF r.ret THEN [ran(r) EXCEPT !.cycles_completed = @ + 2 * st.spin_value]
            ELSE [ran(r) EXCEPT !.pc = "UnboundLocalError"]))

\* lines 783-801; after a cycle that failed, text has no value when it is
\* written to the dialogue
on_continue_button(st0) ==
    With(request(st0, "on_continue_button"), LAMBDA st :
        IF st.cycles_completed = 0 THEN st
        ELSE With(run_network(st, st.spin_value), LAMBDA r :
            IF r.ret THEN [ran(r) EXCEPT !.cycles_completed = @ + st.spin_value]
            ELSE [ran(r) EXCEPT !.pc = "UnboundLocalError"]))

\* lines 803-822, for the switch at switch_index of the list (from 1)
on_switch_button(st0, switch_index, switch_state) ==
    With(request(st0, "on_switch_button"), LAMBDA st :
        set_switch(st, switches_id_list(st)[switch_index], switch_state).st)

\* lines 824-851; selection is the place in the list of monitored names,
\* 0 when nothing is selected
on_zap_button(st0, selection) ==
    With(request(st0, "on_zap_button"), LAMBDA st :
        IF selection \notin 1..Len(get_signal_names(st)[1]) THEN st
        ELSE LET monitor == get_monitor_IDs(st, get_signal_names(st)[1][selection])
             IN  remove_monitor(st, monitor[1], monitor[2]).st)

\* a variant of on_add_button that passes no count of cycles
on_add_button_unpadded(st0, selection) ==
    With(request(st0, "on_add_button"), LAMBDA st :
        IF selection \notin 1..Len(get_signal_names(st)[2]) THEN st
        ELSE LET monitor == get_monitor_IDs(st, get_signal_names(st)[2][selection])
             IN  make_monitor_cycles(st, monitor[1], monitor[2], 0).st)

\* lines 853-881; selection is the place in the list of names that are not
\* monitored, 0 when nothing is selected
on_add_button(st0, selection) ==
    With(request(st0, "on_add_button"), LAMBDA st :
        IF selection \notin 1..Len(get_signal_names(st)[2]) THEN st
        ELSE LET monitor == get_monitor_IDs(st, get_signal_names(st)[2][selection])
             IN  make_monitor_cycles(st, monitor[1], monitor[2],
                                     st.cycles_completed).st)

\* the length of the longest history
longest(hs) ==
    IF hs = <<>> THEN 0
    ELSE CHOOSE n \in { Len(hs[i]) : i \in 1..Len(hs) } :
             \A i \in 1..Len(hs) : Len(hs[i]) <= n

GuiInit == \E source \in GuiSources : Is(GuiState(source))

OnSpin == \E value \in 0..MaxSpin : Does(LAMBDA st : on_spin(st, value))

OnRunButton == Does(on_run_button)

OnContinueButton ==
    /\ cycles_completed + spin_value <= MaxCycles
    /\ longest(histories) + spin_value <= MaxCycles
    /\ Does(on_continue_button)

OnSwitchButton ==
    \E switch_index \in 1..Len(switches_id_list(State)), switch_state \in {LOW, HIGH} :
        Does(LAMBDA st : on_switch_button(st, switch_index, switch_state))

OnZapButton ==
    \E selection \in 0..Len(get_signal_names(State)[1]) :
        Does(LAMBDA st : on_zap_button(st, selection))

OnAddButton ==
    \E selection \in 0..Len(get_signal_names(State)[2]) :
        /\ selection = 0 \/ Len(monitors_dictionary) < MaxMonitors
        /\ Does(LAMBDA st : on_add_button(st, selection))

GuiNext ==
    \/ OnSpin \/ OnRunButton \/ OnContinueButton
    \/ OnSwitchButton \/ OnZapButton \/ OnAddButton

GuiSpec == GuiInit /\ [][GuiNext]_vars

(***************************************************************************)
(* The simulator under its driver: networks that parse_network has built   *)
(* without an error, run by run_network a few cycles at a time, with the   *)
(* switches set, the devices started cold and the monitors reset between   *)
(* the runs.  locals is as under Gui.                                      *)
(***************************************************************************)
\* the most cycles of one call of run_network
MaxRun == 3

\* the longest history a run is given room for
MaxRecorded == 3

\* a ring of inverting gates of one input, G1 to G2 .. to Gn to G1, of the
\* kinds given; G1 is monitored
RingSource(kinds) ==
    LET G(k) == <<"G">> \o str(k)
        n == Len(kinds)
    IN  Lines([k \in 1..n |->
                  Stmt(<<S.define, G(k), S.as, kinds[k], S.one, S.inputs>>)]
              \o [k \in 1..n |->
                  Stmt(<<S.connect, G(k), S.to, Ref(G((k % n) + 1), Port(1))>>)]
              \o << Stmt(<<S.monitor, G(1)>>) >>) \o S.END

RingSources ==
    { RingSource(kinds) : kinds \in { <<S.NAND>>, <<S.NOR>>, <<S.NAND, S.NOR, S.NAND>> } }

\* the devices that drive a chain of gates: a switch, a clock, a signal
\* generator
Drivers ==
    { <<S.SWITCH, S.zero, S.state>>,
      <<S.CLOCK, S.period, <<"2">> >>,
      <<S.SIGGEN, S.one, S.for, S.one, S.cycles, S.zero, S.for, <<"2">>,
        S.cycles, S.waveform>> }

\* a driver A into a chain of three inverting gates, G1 to G2 to G3, the
\* last into both inputs of an AND gate H with the driver; H is monitored
ChainSource(driver) ==
    Lines(<< Stmt(<<S.define, <<"A">>, S.as>> \o driver),
             Stmt(<<S.define, <<"G", "1">>, <<"G", "3">>, S.as, S.NAND, S.one, S.inputs>>),
             Stmt(<<S.define, <<"G", "2">>, S.as, S.NOR, S.one, S.inputs>>),
             Stmt(<<S.define, <<"H">>, S.as, S.AND, <<"2">>, S.inputs>>),
             Stmt(<<S.connect, <<"A">>, S.to, Ref(<<"G", "1">>, Port(1))>>),
             Stmt(<<S.connect, <<"G", "1">>, S.to, Ref(<<"G", "2">>, Port(1))>>),
             Stmt(<<S.connect, <<"G", "2">>, S.to, Ref(<<"G", "3">>, Port(1))>>),
             Stmt(<<S.connect, <<"G", "3">>, S.to, Ref(<<"H">>, Port(1))>>),
             Stmt(<<S.connect, <<"A">>, S.to, Ref(<<"H">>, Port(2))>>),
             Stmt(<<S.monitor, <<"H">> >>) >>) \o S.END

\* a DTYPE D that toggles: its QBAR is its DATA, a clock CK is its CLK,
\* the switches B and C are its SET and CLEAR; an XOR gate X of Q and CK.
\* No gate feeds a gate.  Q and X are monitored.
ToggleSource ==
    Lines(<< Stmt(<<S.define, <<"B">>, <<"C">>, S.as, S.SWITCH, S.zero, S.state>>),
             Stmt(<<S.define, <<"C", "K">>, S.as, S.CLOCK, S.period, <<"2">> >>),
             Stmt(<<S.define, <<"D">>, S.as, S.DTYPE>>),
             Stmt(<<S.define, <<"X">>, S.as, S.XOR>>),
             Stmt(<<S.connect, Ref(<<"D">>, S.QBAR), S.to, Ref(<<"D">>, S.DATA)>>),
             Stmt(<<S.connect, <<"C", "K">>, S.to, Ref(<<"D">>, S.CLK)>>),
             Stmt(<<S.connect, <<"B">>, S.to, Ref(<<"D">>, S.SET)>>),
             Stmt(<<S.connect, <<"C">>, S.to, Ref(<<"D">>, S.CLEAR)>>),
             Stmt(<<S.connect, Ref(<<"D">>, S.Q), S.to, Ref(<<"X">>, Port(1))>>),
             Stmt(<<S.connect, <<"C", "K">>, S.to, Ref(<<"X">>, Port(2))>>),
             Stmt(<<S.monitor, Ref(<<"D">>, S.Q), <<"X">> >>) >>) \o S.END

NoFeedbackSources ==
    { ChainSource(driver) : driver \in Drivers } \cup { ToggleSource, NandSource }

\* a DTYPE D with the switches A, B and C at DATA, SET and CLEAR and a
\* clock CK at CLK, beside a NAND gate G of the switch L and of G itself:
\* the cycle oscillates when L is high.  Q is monitored.
LatchSource ==
    Lines(<< Stmt(<<S.define, <<"A">>, <<"L">>, S.as, S.SWITCH, S.one, S.state>>),
             Stmt(<<S.define, <<"B">>, <<"C">>, S.as, S.SWITCH, S.zero, S.state>>),
             Stmt(<<S.define, <<"C", "K">>, S.as, S.CLOCK, S.period, <<"2">> >>),
             Stmt(<<S.define, <<"D">>, S.as, S.DTYPE>>),
             Stmt(<<S.define, <<"G">>, S.as, S.NAND, <<"2">>, S.inputs>>),
             Stmt(<<S.connect, <<"A">>, S.to, Ref(<<"D">>, S.DATA)>>),
             Stmt(<<S.connect, <<"C", "K">>, S.to, Ref(<<"D">>, S.CLK)>>),
             Stmt(<<S.connect, <<"B">>, S.to, Ref(<<"D">>, S.SET)>>),
             Stmt(<<S.connect, <<"C">>, S.to, Ref(<<"D">>, S.CLEAR)>>),
             Stmt(<<S.connect, <<"L">>, S.to, Ref(<<"G">>, Port(1))>>),
             Stmt(<<S.connect, <<"G">>, S.to, Ref(<<"G">>, Port(2))>>),
             Stmt(<<S.monitor, Ref(<<"D">>, S.Q)>>) >>) \o S.END

SimSources ==
    RingSources \cup NoFeedbackSources \cup { LatchSource, FeedbackSource(S.one) }

\* the network parse_network has built from the source
SimState(source) == request(run(InitState(source)), "parse_network")

\* a call of run_network by the driver
driver_run_network(st, cycles) ==
    ran(run_network(request(st, "run_network"), cycles))

\* a call of set_switch for the switch at switch_index of the switches
driver_set_switch(st0, switch_index, level) ==
    With(request(st0, "set_switch"), LAMBDA st :
        set_switch(st, switches_id_list(st)[switch_index], level).st)

driver_cold_startup(st) == cold_startup(request(st, "cold_startup"))

driver_reset_monitors(st) == reset_monitors(request(st, "reset_monitors"))

SimInit == \E source \in SimSources : Is(SimState(source))

RunNetwork ==
    \E cycles \in 1..MaxRun :
        /\ longest(histories) + cycles <= MaxRecorded
        /\ Does(LAMBDA st : driver_run_network(st, cycles))

SetSwitch ==
    \E switch_index \in 1..Len(switches_id_list(State)), level \in {LOW, HIGH} :
        Does(LAMBDA st : driver_set_switch(st, switch_index, level))

ColdStartup == Does(driver_cold_startup)

ResetMonitors == Does(driver_reset_monitors)

SimNext == RunNetwork \/ SetSwitch \/ ColdStartup \/ ResetMonitors

SimSpec == SimInit /\ [][SimNext]_vars

(***************************************************************************)
(* Properties.                                                             *)
(***************************************************************************)
\* the text of the last diagnostic, "" when there is none
LastText ==
    IF error_message_list = <<>> THEN ""
    ELSE error_message_list[Len(error_message_list)].text

\* the number of diagnostics recorded with the given text
Count(text) ==
    Cardinality({ i \in 1..Len(error_message_list) :
                    error_message_list[i].text = text })

\* the loop of parse_network has ended on the symbol END, or on end of file
EndedByEND == pc \in {"check", "done"} /\ symbol_is(State, S.END)
EndedByEOF == pc \in {"check", "done"} /\ current_symbol.type = EOF

\* the inputs no connection has been made to, as device "." port
FloatingNames ==
    UNION { { get_name_string(names_list, devices_list[i].device_id) \o S.dot
              \o get_name_string(names_list, devices_list[i].inputs[k].port) :
                k \in { k \in 1..Len(devices_list[i].inputs) :
                          devices_list[i].inputs[k].conn = <<>> } } :
            i \in 1..Len(devices_list) }

\* C3: parse_network terminates for every source: whatever errors occur and
\* wherever display_error leaves the file, the loop ends by reading END at
\* the start of a statement or by reaching the end of the file, and
\* parse_network returns.
Termination == <>(pc = "done" /\ (EndedByEND \/ EndedByEOF))

\* a pass has returned after three or more diagnostics, each of which moved
\* the read position
TerminatedAfterErrors == pc = "done" /\ error_count >= 3 /\ pos > 0

\* C5: parse_network returns True when the number of diagnostics at the end
\* of the pass is 0 and False otherwise; the number counts every diagnostic
\* recorded, the report of the floating inputs included; and until it has
\* returned the pass always has a next step (it never stops by raising).
ReturnsNoErrors ==
    /\ error_count = Len(error_message_list)
    /\ pc # "done" => result = <<>> /\ parse_step(State) # State
    /\ pc = "done" =>
          /\ result \in {<<TRUE>>, <<FALSE>>}
          /\ result[1] = (Len(error_message_list) = 0)
          /\ FloatingNames # {} =>
                LastText = "The following inputs are floating: "

\* a pass whose only diagnostic is the report of the floating inputs has
\* returned False
ReturnedFalseForFloating ==
    /\ pc = "done" /\ result = <<FALSE>> /\ error_count = 1
    /\ LastText = "The following inputs are floating: "

\* C7: when the loop has ended with k >= 1 inputs unconnected, one
\* diagnostic that lists all k of them is recorded and the error count rises
\* by exactly 1; with none unconnected, no diagnostic is recorded.
FloatingReport ==
    [][pc = "check" =>
        IF FloatingNames # {}
        THEN /\ error_count' = error_count + 1
             /\ Len(error_message_list') = Len(error_message_list) + 1
             /\ SubSeq(error_message_list', 1, Len(error_message_list))
                    = error_message_list
             /\ LastText' = "The following inputs are floating: "
             /\ LET args == error_message_list'[Len(error_message_list')].args
                IN  /\ Len(args) = Cardinality(FloatingNames)
                    /\ { args[i] : i \in 1..Len(args) } = FloatingNames
        ELSE /\ error_count' = error_count
             /\ error_message_list' = error_message_list]_vars

\* a pass has returned with one report that lists two floating inputs
TwoFloatingReported ==
    /\ pc = "done" /\ Cardinality(FloatingNames) = 2
    /\ Count("The following inputs are floating: ") = 1
    /\ Len(error_message_list[Len(error_message_list)].args) = 2

\* C8: when the end of the file is read where a statement should start,
\* 'Expected END at end of file' is recorded, the loop ends, no further
\* symbol is read, the diagnostic is in the list exactly once when
\* parse_network returns, and it returns False.
EOFReport ==
    [][/\ at(State, "EOF") =>
            /\ error_message_list' =
                   Append(error_message_list,
                          Message("Expected END at end of file"))
            /\ error_count' = error_count + 1
            /\ reads' = reads + 1
            /\ pc' = "check"
       /\ EndedByEOF /\ pc = "check" =>
            /\ reads' = reads
            /\ pc' = "done"
            /\ result' = <<FALSE>>
            /\ Count("Expected END at end of file")' = 1]_vars

\* a pass over a file that defines devices and has no END has returned
ReturnedAtEOF ==
    /\ pc = "done" /\ EndedByEOF /\ devices_list # <<>>
    /\ Count("Expected END at end of file") = 1 /\ result = <<FALSE>>

\* the string of the current symbol of st
SymbolString(st) == get_name_string(st.names_list, st.current_symbol.id)

\* the kind of the device that the current symbol of st names
SymbolKind(st) ==
    get_name_string(st.names_list,
        get_device(st.devices_list, st.current_symbol.id).device_kind)

\* the devices as <<name, kind, number of inputs>>, in order of creation
DeviceSummary(st) ==
    [i \in 1..Len(st.devices_list) |->
        <<get_name_string(st.names_list, st.devices_list[i].device_id),
          get_name_string(st.names_list, st.devices_list[i].device_kind),
          Len(st.devices_list[i].inputs)>>]

\* the monitor points as <<device name, port id>>, in order of creation
MonitorSummary(st) ==
    [i \in 1..Len(st.monitors_dictionary) |->
        <<get_name_string(st.names_list, st.monitors_dictionary[i][1]),
          st.monitors_dictionary[i][2]>>]

\* the input port of the device named sink is connected to the only
\* output of the device named source
Connected(source, sink, port) ==
    /\ device_exists(devices_list, query(names_list, sink))
    /\ has_input(get_device(devices_list, query(names_list, sink)),
                 query(names_list, port))
    /\ input_connection(get_device(devices_list, query(names_list, sink)),
                        query(names_list, port))
           = <<query(names_list, source), None>>

\* the only output of the device named source is monitored
Monitored(source) ==
    \E i \in 1..Len(monitors_dictionary) :
        monitors_dictionary[i] = <<query(names_list, source), None>>

FloatingText == "The following inputs are floating: "

\* C4 as stated: the file 'define G1 as NAND 2 inputs; END' is parsed with
\* zero errors (parse_network returns True) and leaves exactly one device,
\* a NAND gate with 2 inputs.
GateExampleNoErrors ==
    file = GateSource /\ pc = "done" =>
        /\ error_count = 0
        /\ result = <<TRUE>>
        /\ DeviceSummary(State) = << <<<<"G", "1">>, S.NAND, 2>> >>

\* C4 amended: the file 'define G1 as NAND 2 inputs; END' is parsed with no
\* diagnostic for its statement and leaves exactly one device, a NAND gate
\* with 2 inputs; both inputs are unconnected, so the report of the floating
\* inputs G1.I1 and G1.I2 is the one diagnostic, the error count is 1 and
\* parse_network returns False.
GateExample ==
    file = GateSource =>
        /\ pc = "check" =>
              /\ error_count = 0
              /\ DeviceSummary(State) = << <<<<"G", "1">>, S.NAND, 2>> >>
        /\ pc = "done" =>
              /\ DeviceSummary(State) = << <<<<"G", "1">>, S.NAND, 2>> >>
              /\ error_message_list =
                     << [text |-> FloatingText,
                         args |-> << Ref(<<"G", "1">>, Port(1)),
                                     Ref(<<"G", "1">>, Port(2)) >>] >>
              /\ error_count = 1
              /\ result = <<FALSE>>

\* the pass over the single-gate file has returned
GateExampleParsed == file = GateSource /\ pc = "done" /\ devices_list # <<>>

\* the definition about to be made names a device that exists already, or
\* names one device twice
Redefinition ==
    /\ pc = "device"
    /\ \/ \E i \in 1..Len(locals.name_ids) :
              device_exists(devices_list, locals.name_ids[i])
       \/ \E i, j \in 1..Len(locals.name_ids) :
              i # j /\ locals.name_ids[i] = locals.name_ids[j]

\* C6: a define statement that names an identifier already defined, by an
\* earlier statement or earlier in its own name list, is reported as an
\* error, whatever the kind of device.
RedefinitionReported == [][Redefinition => error_count' > error_count]_vars

\* the reference whose first symbol is the current symbol of st is a
\* well-formed output reference: a device that is a DTYPE followed by '.'
\* and Q or QBAR, or a device that is no DTYPE followed by no '.'
OutputWellFormed(st) ==
    /\ device_exists(st.devices_list, st.current_symbol.id)
    /\ \/ /\ SymbolKind(st) = S.DTYPE
          /\ SymbolString(advance(st)) = S.dot
          /\ SymbolString(advance(advance(st))) \in {S.Q, S.QBAR}
       \/ /\ SymbolKind(st) # S.DTYPE
          /\ SymbolString(advance(st)) # S.dot

\* the port named by a well-formed output reference, None if none
OutputPort(st) ==
    IF SymbolKind(st) = S.DTYPE
    THEN query(names_list', SymbolString(advance(advance(st))))
    ELSE None

\* the statement is abandoned with one diagnostic, no device, connection or
\* monitor point made
Abandoned ==
    /\ error_count' = error_count + 1
    /\ devices_list' = devices_list
    /\ monitors_dictionary' = monitors_dictionary
    /\ pc' = "start"

\* C9: an output reference is accepted exactly when its name is a defined
\* device and either the device is a DTYPE and '.' with Q or QBAR follows,
\* or it is no DTYPE and no '.' follows; otherwise an error is reported and
\* no connection or monitor point is created from the reference.
OutputReference ==
    [][/\ at(State, "connect") =>
            LET st == advance(advance(State))
            IN  IF OutputWellFormed(st)
                THEN /\ pc' = "connect_to"
                     /\ locals'.output_id = st.current_symbol.id
                     /\ locals'.output_port_id = OutputPort(st)
                     /\ error_count' = error_count
                ELSE Abandoned /\ locals'.output_id = None
       /\ pc = "monitor_loop" /\ ~symbol_is(State, S.semi) =>
            IF OutputWellFormed(State)
            THEN /\ locals'.output_id = current_symbol.id
                 /\ locals'.output_port_id = OutputPort(State)
                 /\ \E i \in 1..Len(monitors_dictionary') :
                        monitors_dictionary'[i] =
                            <<current_symbol.id, OutputPort(State)>>
            ELSE Abandoned /\ locals'.output_id = None]_vars

\* the output QBAR of a DTYPE has been accepted as the source of a connection
DtypeOutputAccepted ==
    /\ pc = "connect_to"
    /\ locals.output_port_id = query(names_list, S.QBAR)
    /\ error_count = 0

\* the reference whose first symbol is the current symbol of st is a
\* well-formed input reference: a device, '.', and a port that is DATA, CLK,
\* SET or CLEAR of a DTYPE, or I<k> of a gate that has at least k inputs
InputWellFormed(st) ==
    /\ device_exists(st.devices_list, st.current_symbol.id)
    /\ SymbolString(advance(st)) = S.dot
    /\ \/ /\ SymbolString(advance(advance(st))) \in {S.DATA, S.CLK, S.SET, S.CLEAR}
          /\ SymbolKind(st) = S.DTYPE
       \/ /\ SymbolKind(st) \in {S.AND, S.NAND, S.OR, S.NOR, S.XOR}
          /\ \E k \in 1..Len(get_device(st.devices_list,
                                        st.current_symbol.id).inputs) :
                 SymbolString(advance(advance(st))) = Port(k)

\* C10: an input reference NAME '.' PORT is accepted exactly when NAME is a
\* defined device and PORT is DATA, CLK, SET or CLEAR of a DTYPE or I<k> of
\* an AND, NAND, OR, NOR or XOR gate with at least k inputs; otherwise an
\* error is reported and no connection is made.
InputReference ==
    [][pc = "connect_input" =>
        IF InputWellFormed(State)
        THEN /\ pc' = "connect_make"
             /\ locals'.input_id = current_symbol.id
             /\ locals'.input_port_id =
                    query(names_list', SymbolString(advance(advance(State))))
             /\ error_count' = error_count
             /\ devices_list' = devices_list
        ELSE Abandoned /\ locals'.input_id = None]_vars

\* the input I2 of an XOR gate has been accepted as the end of a connection
XorInputAccepted ==
    /\ pc = "connect_make"
    /\ get_name_string(names_list, locals.input_id) = <<"X">>
    /\ get_name_string(names_list, locals.input_port_id) = Port(2)

\* the diagnostics of st other than the report of the floating inputs
StatementErrors(st) ==
    Cardinality({ i \in 1..Len(st.error_message_list) :
                    st.error_message_list[i].text # FloatingText })

ProbeEffect(probe) ==
    IF probe = "define"
    THEN device_exists(devices_list, query(names_list, <<"Z">>))
    ELSE IF probe = "connect"
    THEN Connected(<<"B">>, <<"G">>, Port(2))
    ELSE Monitored(<<"B">>)

ConnectionsKept ==
    \A i \in 1..Len(devices_list) :
        \A k \in 1..Len(devices_list[i].inputs) :
            devices_list[i].inputs[k].conn # <<>> =>
                /\ Len(devices_list') >= i
                /\ devices_list'[i].inputs[k].conn = devices_list[i].inputs[k].conn

\* the input that the connect statement in progress names has a connection
DestinationConnected ==
    /\ pc = "connect_make"
    /\ input_connection(get_device(devices_list, locals.input_id),
                        locals.input_port_id) # <<>>

\* C11: every input has at most one incoming connection: a connection once
\* made stays in place in every step, and a connect statement whose
\* destination input already has a connection records 'Input is already in
\* a connection', counts one error and changes no device; a connect
\* statement whose destination is free makes exactly its connection.
SingleConnection ==
    [][/\ ConnectionsKept
       /\ DestinationConnected =>
            /\ error_count' = error_count + 1
            /\ error_message_list' =
                   Append(error_message_list,
                          Message("Input is already in a connection"))
            /\ devices_list' = devices_list
       /\ pc = "connect_make" /\ ~DestinationConnected =>
            /\ error_message_list' = error_message_list
                  \/ LastText' = "Expected semicolon"
            /\ input_connection(get_device(devices_list', locals.input_id),
                                locals.input_port_id)
                   = <<locals.output_id, locals.output_port_id>>]_vars

\* the pass has returned over a file that connects B to an input A is
\* connected to: the second connection was reported and A is still connected
SecondConnectionReported ==
    /\ pc = "done"
    /\ file = ConnectionSource(<<"B">>, <<"\n">>)
    /\ Count("Input is already in a connection") = 1
    /\ Connected(<<"A">>, <<"G">>, Port(1))
    /\ Connected(<<"B">>, <<"G">>, Port(2))

\* the output that the reference at the current symbol names is monitored
AlreadyMonitored ==
    /\ OutputWellFormed(State)
    /\ \E i \in 1..Len(monitors_dictionary) :
           monitors_dictionary[i] = <<current_symbol.id, OutputPort(State)>>

\* the monitor points that the references make, as MonitorSummary gives them
RECURSIVE MonitorPoints(_)
MonitorPoints(refs) ==
    IF refs = <<>> THEN <<>>
    ELSE << IF Len(Head(refs)) = 1 THEN <<Head(refs), None>>
            ELSE <<SubSeq(Head(refs), 1, 1), query(names_list, S.Q)>> >>
         \o MonitorPoints(Tail(refs))

\* C12: in a monitor statement an output that is monitored already is a
\* semantic error, and a reference that is invalid or names a monitored
\* output abandons the statement: one diagnostic is recorded, the monitor
\* points made before it (by this statement or an earlier one) stay as they
\* are, and no reference after it in the statement becomes a monitor point.
MonitorAbandoned ==
    /\ [][pc = "monitor_loop" /\ ~symbol_is(State, S.semi) =>
            IF ~OutputWellFormed(State) \/ AlreadyMonitored
            THEN /\ error_count' = error_count + 1
                 /\ monitors_dictionary' = monitors_dictionary
                 /\ pc' = "start"
                 /\ AlreadyMonitored =>
                       LastText' = "A monitor has already been placed at this output port."
            ELSE /\ error_count' = error_count
                 /\ monitors_dictionary' =
                        Append(monitors_dictionary,
                               <<current_symbol.id, OutputPort(State)>>)
                 /\ pc' = "monitor_loop"]_vars
    /\ [](pc = "done" =>
            \A c \in MonitorCases :
                file = MonitorSource(c.before, c.bad, c.separator, c.after) =>
                    MonitorSummary(State) =
                        MonitorPoints(<< <<"A">> >> \o c.before))

\* the pass has returned over a file whose monitor statement lists B and
\* D.Q, then A, which is monitored already, then G and X on the same line
MonitorAbandonedAtDuplicate ==
    /\ pc = "done"
    /\ file = MonitorSource(<< <<"B">>, Ref(<<"D">>, S.Q) >>, <<"A">>, <<" ">>,
                            << <<"G">>, <<"X">> >>)
    /\ Count("A monitor has already been placed at this output port.") = 1
    /\ Len(monitors_dictionary) = 3

\* the definition about to be made is of a gate; its input count
GateDefinition ==
    pc = "device" /\ SymbolString(State) \in {S.AND, S.NAND, S.OR, S.NOR}

InputCount == SymbolString(advance(State))

\* the definition about to be made is of a clock; its period
ClockDefinition == pc = "device" /\ SymbolString(State) = S.CLOCK

Period == SymbolString(advance(advance(State)))

\* the qualifier of the definition about to be made is one that the kind
\* allows: an input count that is an integer in 1..16, a period that is an
\* integer with period // 2 >= 1
QualifierInRange ==
    \/ GateDefinition /\ IsDigitString(InputCount) /\ int(InputCount) \in 1..16
    \/ /\ ClockDefinition
       /\ SymbolString(advance(State)) = S.period
       /\ IsDigitString(Period) /\ int(Period) \div 2 >= 1

\* C13: a definition of a gate creates devices only when its input count is
\* an integer in 1..16, one of a clock only when period // 2 >= 1; otherwise
\* an error is reported and no name of the statement becomes a device.
QualifierChecked ==
    [][GateDefinition \/ ClockDefinition =>
          /\ devices_list' # devices_list => QualifierInRange
          /\ ~QualifierInRange =>
                /\ error_count' = error_count + 1
                /\ devices_list' = devices_list
                /\ pc' = "start"]_vars

\* the segments are well formed: there is one at least, every level is 0
\* or 1 and every number of cycles is an integer > 0
SegmentsWellFormed(segments) ==
    /\ segments # <<>>
    /\ \A i \in 1..Len(segments) :
        /\ segments[i][1] \in {S.zero, S.one}
        /\ IsDigitString(segments[i][2]) /\ int(segments[i][2]) > 0

RECURSIVE Levels(_)
\* l1 n1 times, then l2 n2 times, ..., in the order of the segments
Levels(segments) ==
    IF segments = <<>> THEN <<>>
    ELSE [k \in 1..int(Head(segments)[2]) |-> int(Head(segments)[1])]
         \o Levels(Tail(segments))

\* C14: a SIGGEN definition with the segments (l1 for n1 cycles) ... (lk for
\* nk cycles) creates, for each name, a device whose waveform is l1 n1
\* times, then l2 n2 times, ..., then lk nk times; a number of cycles that
\* is not > 0, a level other than 0 or 1, or a definition with no segment
\* is an error and creates no device.
SiggenWaveform ==
    pc = "done" =>
        \A segments \in SegmentLists :
            file = SiggenSource(segments) =>
                IF SegmentsWellFormed(segments)
                THEN /\ DeviceSummary(State) =
                            << <<<<"V">>, S.SIGGEN, 0>>, <<<<"W">>, S.SIGGEN, 0>> >>
                     /\ devices_list[1].qualifier = Levels(segments)
                     /\ devices_list[2].qualifier = Levels(segments)
                     /\ error_count = 0
                ELSE /\ devices_list = <<>>
                     /\ error_count = 1

\* the pass has returned over a SIGGEN definition of two segments, 1 for 2
\* cycles and 0 for 3 cycles, and has made the devices
SiggenTwoSegments ==
    /\ pc = "done"
    /\ file = SiggenSource(<< <<S.one, <<"2">> >>, <<S.zero, <<"3">> >> >>)
    /\ Len(devices_list) = 2
    /\ devices_list[1].qualifier = <<1, 1, 0, 0, 0>>

\* the reserved words
ReservedWords == { keywords_list[i] : i \in 1..Len(keywords_list) }

\* the step is a call of get_symbol
SymbolRead == reads' = reads + 1

\* the symbols returned so far, as <<type, string>>
Returned ==
    [i \in 1..Len(locals.symbols) |->
        <<locals.symbols[i][1],
          get_name_string(names_list, locals.symbols[i][2])>>]

\* the index of the last character of the longest run of characters of the
\* class that starts at index s of the file
RunEnd(s, class(_)) ==
    CHOOSE e \in s..Len(file) :
        /\ \A i \in s..e : class(file[i])
        /\ e = Len(file) \/ ~class(file[e + 1])

\* the type that get_symbol gives the run of characters text
TypeOf(text) ==
    IF isalpha(text[1])
    THEN IF text \in ReservedWords THEN KEYWORD ELSE NAME
    ELSE IF isdigit(text[1]) THEN NUMBER
    ELSE IF text = <<".">> THEN FULLSTOP
    ELSE IF text = <<";">> THEN SEMICOLON
    ELSE INVALID

\* the symbols of the tokenizing example, and the EOF that follows them
ExampleSymbols ==
    << <<KEYWORD, S.define>>, <<NAME, <<"S", "W", "1">> >>, <<KEYWORD, S.as>>,
       <<KEYWORD, S.SWITCH>>, <<NUMBER, S.zero>>, <<KEYWORD, S.state>>,
       <<SEMICOLON, S.semi>>, <<EOF, <<>> >>, <<EOF, <<>> >> >>

\* C15: in a text without comments get_symbol skips white space and returns
\* the longest run that starts at the next character: a run of letters and
\* digits that starts with a letter is KEYWORD if it is a reserved word,
\* else NAME; a run of digits is NUMBER; '.' is FULLSTOP; ';' is SEMICOLON;
\* any other character is INVALID, one character long; and 'define SW1 as
\* SWITCH 0 state;' gives KEYWORD(define), NAME(SW1), KEYWORD(as),
\* KEYWORD(SWITCH), NUMBER(0), KEYWORD(state), SEMICOLON, then EOF.
SymbolsClassified ==
    /\ [][SymbolRead /\ (\A k \in 1..Len(file) : file[k] # "#") =>
            LET rest == { i \in (pos + 1)..Len(file) : ~isspace(file[i]) }
            IN  IF rest = {}
                THEN current_symbol'.type = EOF /\ pos' = Len(file)
                ELSE LET s == CHOOSE i \in rest : \A j \in rest : i <= j
                         e == IF isalpha(file[s]) THEN RunEnd(s, isalnum)
                              ELSE IF isdigit(file[s]) THEN RunEnd(s, isdigit)
                              ELSE s
                     IN  /\ get_name_string(names_list', current_symbol'.id)
                                = SubSeq(file, s, e)
                         /\ current_symbol'.type = TypeOf(SubSeq(file, s, e))
                         /\ pos' = e]_vars
    /\ [](file = ExampleSource =>
            Returned = SubSeq(ExampleSymbols, 1, Len(locals.symbols)))

\* the tokenizing example has been read to its end
ExampleRead ==
    file = ExampleSource /\ ended(State) /\ Len(locals.symbols) = 9

RECURSIVE Blank(_, _, _)
\* the text f from index i on holds only white space and whole '#'...'#'
\* comments; inside says that index i is within a comment
Blank(f, i, inside) ==
    IF i > Len(f) THEN ~inside
    ELSE IF f[i] = "#" THEN Blank(f, i + 1, ~inside)
    ELSE (inside \/ isspace(f[i])) /\ Blank(f, i + 1, inside)

SymbolsOf(base) ==
    /\ Len(locals.symbols) <= Len(symbols(base))
    /\ locals.symbols = SubSeq(symbols(base), 1, Len(locals.symbols))

\* C17: a '#'...'#' comment (on one line, over two lines, or two comments
\* back to back) put into a text at a place where white space may stand
\* does not change the sequence of <<type, id>> that get_symbol returns.
CommentsTransparent ==
    \A c \in CommentCases :
        file = Inserted(c.base, c.at, c.comment) /\ error_count = 0 =>
            /\ SymbolsOf(c.base)
            /\ ended(State) => Len(locals.symbols) = Len(symbols(c.base))

\* a text with a comment of two lines between two of its symbols has been
\* read to its end
TwoLineCommentRead ==
    \E c \in CommentCases :
        /\ c.comment = <<"#", "a", "\n", "b", "#">>
        /\ c.at > 0 /\ c.at < Len(c.base)
        /\ file = Inserted(c.base, c.at, c.comment)
        /\ ended(State) /\ Len(locals.symbols) > 4

\* C18: a '%' starts a line comment: the characters from the '%' to the end
\* of its line give no symbol, so that the text with the comment gives the
\* symbols of the text without it.
LineCommentsSkipped ==
    \A c \in LineCommentCases :
        file = Inserted(c.base, c.at, c.comment) /\ error_count = 0 =>
            SymbolsOf(c.base)

\* the step is a call of display_error with the caret
CaretReport ==
    error_count' = error_count + 1 /\ locals'.caret /\ pc' = "reported"

\* the boundary display_error looks for the error line from: the last
\* semicolon (the one before it when the current character is ';') or the
\* end of the last comment, whichever is later
Boundary ==
    IF last_semicolon_pos > last_comment_pos
    THEN IF current_character = ";" THEN last_last_semicolon_pos
         ELSE last_semicolon_pos
    ELSE last_comment_pos

\* the offset of the first character that is no white space after offset b,
\* or of the last character of the file
FirstAfter(b) ==
    LET rest == { i \in (b + 1)..Len(file) : ~isspace(file[i]) }
    IN  IF rest = {} THEN Len(file) - 1
        ELSE (CHOOSE i \in rest : \A j \in rest : i <= j) - 1

\* the offset after the first line break after offset q, or the end of
\* the file
NextLine(q) ==
    LET breaks == { i \in (q + 1)..Len(file) : file[i] = "\n" }
    IN  IF breaks = {} THEN Len(file)
        ELSE CHOOSE i \in breaks : \A j \in breaks : i <= j

\* C19 as stated: display_error with the caret leaves the read position as
\* it was on entry, so that the next get_symbol returns the symbol it would
\* have returned without the call.
ReadPositionRestored ==
    pc = "reported" /\ locals.caret => pos = locals.error_position

\* C19: display_error with the caret counts the error, appends the message
\* and leaves the read position at the start of the line after the one it
\* prints, or at the end of the file, and takes that position for its next
\* boundary; the line it prints is the line of the first character that is
\* no white space after the boundary, and the first line of the file when
\* the boundary is offset 0.
ErrorLineSkipped ==
    [][CaretReport =>
        /\ pos' = NextLine(IF Boundary = 0 THEN 0 ELSE FirstAfter(Boundary))
        /\ last_semicolon_pos' = pos'
        /\ error_count' = error_count + 1
        /\ error_message_list'
              = Append(error_message_list, Message("error_message"))]_vars

\* display_error with the caret has left the read position at the start of
\* a line, away from where it was on entry
ReadPositionMoved ==
    /\ pc = "reported" /\ locals.caret
    /\ pos # locals.error_position
    /\ pos > 0 /\ pos < Len(file) /\ file[pos] = "\n"

NumberReport == pc' = "raised"

\* C21: display_error called with a message that is not text raises
\* TypeError and leaves error_count and error_message_list as they were;
\* a call with a text message adds one to error_count and appends the
\* message to error_message_list.
MessageTypeChecked ==
    /\ [][NumberReport =>
            /\ error_count' = error_count
            /\ error_message_list' = error_message_list]_vars
    /\ [][pc' = "reported" =>
            /\ error_count' = error_count + 1
            /\ error_message_list'
                  = Append(error_message_list, Message("error_message"))]_vars

\* the string is in the names table
Interned(string) == \E j \in 1..Len(names_list) : names_list[j] = string

\* C22: lookup returns for a string that is in the table the id it has and,
\* when every string of the list is in the table, leaves the table as it
\* is; for a list of k different strings of which none is in the table it
\* returns size, size + 1, ..., size + k - 1, where size is the size of the
\* table before the call, and appends the strings in that order.
LookupAllocates ==
    [][pc' = "lookup" =>
        LET list == locals'.argument
            size == Len(names_list)
        IN  /\ Len(result') = Len(list)
            /\ \A i \in 1..Len(list) :
                 Interned(list[i]) =>
                     /\ result'[i] \in 0..(size - 1)
                     /\ names_list[result'[i] + 1] = list[i]
            /\ (\A i \in 1..Len(list) : Interned(list[i])) =>
                   names_list' = names_list
            /\ (/\ \A i \in 1..Len(list) : ~Interned(list[i])
                /\ \A i, j \in 1..Len(list) : i # j => list[i] # list[j]) =>
                   /\ result' = [i \in 1..Len(list) |-> size + i - 1]
                   /\ names_list' = names_list \o list]_vars

\* lookup has interned two new strings in a table that held one
TwoNamesAdded ==
    /\ pc = "lookup" /\ Len(locals.argument) = 2
    /\ result = <<1, 2>> /\ Len(names_list) = 3

\* the integers of range(first, stop), given as <<first, stop>>
Codes(range) == range[1]..(range[2] - 1)

\* the codes of the ranges that unique_error_codes has returned so far
IssuedCodes == UNION { Codes(locals.ranges[i]) : i \in 1..Len(locals.ranges) }

\* C23 as stated: unique_error_codes(n) with n >= 1 returns n contiguous
\* integers that are in no range returned by an earlier call and are the
\* id of no name of the table.
CodesDisjointFromNames ==
    [][pc' = "unique_error_codes" =>
        /\ Cardinality(Codes(result')) = locals'.argument
        /\ Codes(result') \cap IssuedCodes = {}
        /\ Codes(result') \cap 0..(Len(names_list) - 1) = {}]_vars

\* C23: unique_error_codes(n) with n >= 1 returns the n contiguous integers
\* from the number of codes issued so far on, which are in no range
\* returned by an earlier call, and leaves the names as they are; the codes
\* are counted apart from the name ids, from 0 like them.
CodesContiguous ==
    [][pc' = "unique_error_codes" =>
        /\ locals'.argument >= 1
        /\ result' = <<error_code_count,
                       error_code_count + locals'.argument>>
        /\ error_code_count' = error_code_count + locals'.argument
        /\ IssuedCodes = 0..(error_code_count - 1)
        /\ Codes(result') \cap IssuedCodes = {}
        /\ names_list' = names_list]_vars

\* a second range of codes has been issued by a table that holds names,
\* and its first code is the id of a name
SecondRangeIssued ==
    /\ pc = "unique_error_codes" /\ Len(locals.ranges) = 2
    /\ result[1] > 0 /\ result[1] < Len(names_list)

\* C24: after any sequence of calls the ids issued are 0..size-1, each with
\* one string and each string with one id: get_name_string(query(s)) = s
\* for every string s of the table, query(get_name_string(i)) = i for every
\* id i below the size, the ids lookup returns are below the size; and an
\* id keeps its string in every later state.
IdsDenseAndStable ==
    /\ [](/\ \A i \in 0..(Len(names_list) - 1) :
               query(names_list, get_name_string(names_list, i)) = i
          /\ \A s \in NameStrings :
               Interned(s) =>
                   /\ query(names_list, s) \in 0..(Len(names_list) - 1)
                   /\ get_name_string(names_list, query(names_list, s)) = s
          /\ \A i, j \in 1..Len(names_list) :
               i # j => names_list[i] # names_list[j]
          /\ pc = "lookup" =>
               \A k \in 1..Len(result) :
                   result[k] \in 0..(Len(names_list) - 1))
    /\ [][/\ Len(names_list') >= Len(names_list)
          /\ \A i \in 1..Len(names_list) :
               names_list'[i] = names_list[i]]_vars

\* the table holds three names and codes have been issued, and query has
\* found the name interned last
FullTableQueried ==
    /\ Len(names_list) = 3 /\ error_code_count > 0
    /\ pc = "query" /\ result = 2

\* C25: query and get_name_string leave the names list and the count of
\* error codes as they are, whatever they return or raise; query returns
\* None for a string that is not in the table; get_name_string returns
\* None for an id at or beyond the size of the table and raises ValueError
\* for a negative id.
ReadsLeaveTable ==
    /\ [][locals'.method \in {"query", "get_name_string"} =>
            /\ names_list' = names_list
            /\ error_code_count' = error_code_count]_vars
    /\ [][locals'.method = "query" /\ ~Interned(locals'.argument) =>
            pc' = "query" /\ result' = None]_vars
    /\ [][(/\ locals'.method = "get_name_string"
           /\ locals'.argument >= Len(names_list)) =>
            pc' = "get_name_string" /\ result' = None]_vars
    /\ [][locals'.method = "get_name_string" /\ locals'.argument < 0 =>
            pc' = "ValueError"]_vars

\* get_name_string has raised ValueError on a table that holds names and
\* has issued codes
NegativeIdRaised ==
    /\ pc = "ValueError" /\ locals.method = "get_name_string"
    /\ names_list # <<>> /\ error_code_count > 0

\* the calls of execute_network among the calls of a request
Executions(calls) ==
    { i \in 1..Len(calls) : calls[i].op = "execute_network" }

\* C26: in a run of N requested cycles record_signals is called exactly
\* once after each call of execute_network that returned True and never
\* after one that returned False, no call of execute_network follows one
\* that returned False, and a run in which none returned False makes N
\* calls of execute_network.
RecordedOncePerCycle ==
    LET calls == locals.calls
    IN  /\ \A i \in 1..Len(calls) :
              /\ (calls[i].op = "execute_network" /\ calls[i].ret) =>
                     (/\ i < Len(calls)
                      /\ calls[i + 1].op = "record_signals"
                      /\ (i + 2 <= Len(calls) => calls[i + 2].op = "execute_network"))
              /\ (calls[i].op = "execute_network" /\ ~calls[i].ret) => i = Len(calls)
              /\ calls[i].op = "record_signals" =>
                     (i > 1 /\ calls[i - 1].op = "execute_network" /\ calls[i - 1].ret)
        /\ Cardinality(Executions(calls)) <= spin_value
        /\ locals.ran = "True" => Cardinality(Executions(calls)) = spin_value
        /\ (locals.ran = "False") =
               (\E i \in 1..Len(calls) : calls[i].op = "execute_network" /\ ~calls[i].ret)

\* a run of two cycles that the second cycle cut short
RunCutShort ==
    /\ locals.ran = "False"
    /\ spin_value = 2
    /\ Len(locals.calls) = 3
    /\ locals.calls[1].ret /\ ~locals.calls[3].ret

\* C27: after a Run request with spin value N in which no cycle
\* oscillated, cycles_completed is N and every monitored history has
\* length N, whatever was run or continued before the request.
RunRestarts ==
    (locals.request = "on_run_button" /\ locals.ran = "True") =>
        /\ cycles_completed = spin_value
        /\ \A i \in 1..Len(histories) : Len(histories[i]) = spin_value

\* Both monitored histories of the NAND network after a run of two cycles.
RunCompleted ==
    /\ locals.request = "on_run_button" /\ locals.ran = "True"
    /\ spin_value = 2 /\ cycles_completed = 2
    /\ Len(histories) = 2
    /\ \A i \in 1..2 : Len(histories[i]) = 2

\* a step of a Continue request in which no cycle oscillated
Continued ==
    locals'.request = "on_continue_button" /\ locals'.ran = "True"

\* C28: a Continue request with spin value M in which no cycle oscillated,
\* made after a run of N > 0 cycles, leaves cycles_completed at N + M and
\* lengthens every history by M, so that the histories monitored since the
\* start of the run (of length N) have length N + M.
ContinueAdds ==
    [][ Continued =>
            /\ cycles_completed > 0
            /\ cycles_completed' = cycles_completed + spin_value
            /\ Len(histories') = Len(histories)
            /\ \A i \in 1..Len(histories) :
                   /\ Len(histories'[i]) = Len(histories[i]) + spin_value
                   /\ Len(histories[i]) = cycles_completed =>
                          Len(histories'[i]) = cycles_completed' ]_vars

\* A run of two cycles continued for one: three cycles completed and
\* every history of length three.
ContinueCompleted ==
    /\ locals.request = "on_continue_button" /\ locals.ran = "True"
    /\ spin_value = 1 /\ cycles_completed = 3
    /\ Len(histories) = 2
    /\ \A i \in 1..2 : Len(histories[i]) = 3 /\ BLANK \notin { histories[i][k] : k \in 1..3 }

\* C29: after any sequence of Run, Continue, Add-monitor, Zap-monitor and
\* set-switch requests, including runs that an oscillating cycle cut
\* short, all active monitor histories have the same length.
HistoriesAligned ==
    \A i, j \in 1..Len(histories) : Len(histories[i]) = Len(histories[j])

\* the calls of record_signals among the calls of a request
Recordings(calls) ==
    { i \in 1..Len(calls) : calls[i].op = "record_signals" }

\* a step of an Add request that made a monitor
Added ==
    /\ locals'.request = "on_add_button"
    /\ Len(monitors_dictionary') = Len(monitors_dictionary) + 1

\* C30: make_monitor, given the count k of the cycles that have elapsed,
\* creates a history of k BLANKs and leaves the other histories as they
\* are; each successful cycle followed by record_signals lengthens every
\* active history by exactly one (a Run request empties them first).
MonitorPadded ==
    [][ /\ Added =>
            /\ histories'[Len(histories')] = [k \in 1..cycles_completed |-> BLANK]
            /\ SubSeq(histories', 1, Len(histories)) = histories
        /\ locals'.request \in {"on_run_button", "on_continue_button"} =>
            /\ Len(histories') = Len(histories)
            /\ \A i \in 1..Len(histories) :
                   Len(histories'[i]) =
                       (IF locals'.request = "on_run_button" THEN 0
                        ELSE Len(histories[i]))
                       + Cardinality(Recordings(locals'.calls)) ]_vars

\* A monitor made after two cycles and continued for one: two BLANKs and
\* a level, beside a history of three levels.
PaddedHistoryContinued ==
    /\ locals.request = "on_continue_button" /\ locals.ran = "True"
    /\ cycles_completed = 3
    /\ Len(histories) = 2
    /\ histories[2][1] = BLANK /\ histories[2][2] = BLANK
    /\ Len(histories[2]) = 3 /\ histories[2][3] # BLANK
    /\ Len(histories[1]) = 3 /\ histories[1][1] # BLANK

\* a step of a call of run_network by the driver
Ran == locals'.request = "run_network"

\* C31: on a ring of an odd number of inverting gates execute_network
\* returns False, and after a call that returned False and the driver's
\* handling of it every history is as long as before the call: the
\* histories grow by the cycles recorded before it and by no more.
OddLoopOscillates ==
    [][ Ran =>
            /\ file \in RingSources =>
                   /\ locals'.calls = <<[op |-> "execute_network", ret |-> FALSE]>>
                   /\ locals'.ran = "False"
                   /\ histories' = histories
            /\ locals'.ran = "False" =>
                   /\ ~locals'.calls[Len(locals'.calls)].ret
                   /\ locals'.calls[Len(locals'.calls)].op = "execute_network"
                   /\ Len(histories') = Len(histories)
                   /\ \A i \in 1..Len(histories) :
                          /\ Len(histories'[i]) =
                                 Len(histories[i]) + Cardinality(Recordings(locals'.calls))
                          /\ SubSeq(histories'[i], 1, Len(histories[i])) = histories[i]
                   /\ 2 * Cardinality(Recordings(locals'.calls)) + 1 = Len(locals'.calls) ]_vars

\* The ring of three gates after a call of run_network: one cycle, failed,
\* and nothing recorded.
RingOscillated ==
    /\ file = RingSource(<<S.NAND, S.NOR, S.NAND>>)
    /\ locals.request = "run_network" /\ locals.ran = "False"
    /\ Len(locals.calls) = 1
    /\ histories = << <<>> >>

\* the places of the DTYPE devices in devices_list
Dtypes ==
    { i \in 1..Len(devices_list) : kind_of(State, devices_list[i]) = S.DTYPE }

\* the level of an output, by the names of the device and of the port
LevelOf(device_name, port_name) ==
    get_output_signal(State, query(names_list, device_name),
                      IF port_name = <<>> THEN None ELSE query(names_list, port_name))

\* C32: when execute_network returns False because the pass limit was
\* exhausted, no DTYPE transition is committed: Q and QBAR of every DTYPE
\* are as they were before the call.
FailedCycleKeepsDtypes ==
    [][ (Ran /\ locals'.calls = <<[op |-> "execute_network", ret |-> FALSE]>>) =>
            \A i \in Dtypes : signals'[i].levels = signals[i].levels ]_vars

\* A failed cycle with SET high and Q low: the transition a steady cycle
\* would have committed has not been made.
CommitWithheld ==
    /\ file = LatchSource
    /\ locals.request = "run_network"
    /\ locals.calls = <<[op |-> "execute_network", ret |-> FALSE]>>
    /\ LevelOf(<<"B">>, <<>>) = HIGH
    /\ LevelOf(<<"D">>, S.Q) = LOW /\ LevelOf(<<"D">>, S.QBAR) = HIGH

\* C33: for the source of two switches at 1 and 0, a NAND gate of two
\* inputs with a switch at each and the outputs monitored, parsing reports
\* no error and leaves check_network with an empty list, and a run of
\* three cycles with the switches as declared records HIGH, HIGH, HIGH
\* for the gate.
NandEndToEnd ==
    [][ file = NandSource =>
            /\ check_network(State) = <<>>
            /\ error_count = 0
            /\ locals.request = "parse_network" =>
                   /\ LevelOf(<<"A">>, <<>>) = HIGH /\ LevelOf(<<"B">>, <<>>) = LOW
                   /\ monitors_dictionary[1] = <<query(names_list, <<"G">>), None>>
                   /\ histories = << <<>>, <<>> >>
            /\ (/\ Ran /\ Len(locals'.calls) = 6
                /\ LevelOf(<<"A">>, <<>>) = HIGH /\ LevelOf(<<"B">>, <<>>) = LOW
                /\ histories[1] = <<>>) =>
                   /\ locals'.ran = "True"
                   /\ histories'[1] = <<HIGH, HIGH, HIGH>> ]_vars

\* The NAND network after a run of three cycles from the parsed state.
NandRunThree ==
    /\ file = NandSource
    /\ locals.request = "run_network" /\ Len(locals.calls) = 6
    /\ LevelOf(<<"A">>, <<>>) = HIGH /\ LevelOf(<<"B">>, <<>>) = LOW
    /\ histories = << <<HIGH, HIGH, HIGH>>, <<HIGH, HIGH, HIGH>> >>

\* C34: a monitor statement that lists no output (`monitor ;`) is reported
\* as an error by parse_network.
EmptyMonitorReported ==
    (file \in EmptyMonitorSources /\ pc = "done") =>
        (error_count > 0 /\ result = <<FALSE>>)

\* the outcome of parse_network: the diagnostics, the devices with their
\* connections, and the monitor points
Outcome(st) ==
    [diagnostics |-> st.error_message_list,
     devices     |-> st.devices_list,
     monitors    |-> st.monitors_dictionary]

\* C35: the outcome of parse_network depends only on the sequence of the
\* tokens: a source and the source that has a line break where the first
\* has a space between two tokens give the same outcome.
WhitespaceIndependent ==
    pc = "done" =>
        \A c \in MonitorCases :
            file = MonitorSource(c.before, c.bad, <<" ">>, c.after) =>
                Outcome(State) =
                    Outcome(parse_network(
                        MonitorSource(c.before, c.bad, <<"\n">>, c.after)))

\* the parser is in a define or in a connect statement
InDefineOrConnect ==
    \/ at(State, "define") \/ at(State, "connect")
    \/ pc \in {"device", "connect_to", "connect_input", "connect_make"}

\* C36: a define or connect statement for which an error is reported, at
\* any point up to and including its semicolon, creates no device and no
\* connection.
ErrorCreatesNothing ==
    [][ (InDefineOrConnect /\ error_count' > error_count) =>
            devices_list' = devices_list ]_vars

\* C37: when a cycle oscillates during a Continue request made with
\* cycles_completed > 0, on_continue_button completes normally: it leaves
\* cycles_completed unchanged and returns without raising.
ContinueCompletes ==
    [][ (locals'.request = "on_continue_button" /\ locals'.ran = "False") =>
            (cycles_completed' = cycles_completed /\ pc' = "Gui") ]_vars

\* C38: after a Run or a Continue request cycles_completed is the number
\* of the cycles recorded since the monitors were reset: the length of
\* the history of every point monitored since the start of the run (a
\* history with no BLANK), also when an oscillating cycle cut the request
\* short.
CyclesCounted ==
    locals.request \in {"on_run_button", "on_continue_button"} =>
        \A i \in 1..Len(histories) :
            (\A k \in 1..Len(histories[i]) : histories[i][k] # BLANK) =>
                Len(histories[i]) = cycles_completed

\* C39: on a fully wired network whose gates have no feedback loop the
\* passes reach a fixed point within the limit of device_count + 1:
\* execute_network returns True in every cycle, whatever the levels of
\* the switches, clocks, signal generators and DTYPEs.
NoFeedbackSettles ==
    (file \in NoFeedbackSources /\ locals.request = "run_network") =>
        /\ check_network(State) = <<>>
        /\ locals.ran = "True"
        /\ \A i \in 1..Len(locals.calls) : locals.calls[i].ret

\* The chain after a cycle in which the switch had gone high: the change
\* has passed through the three gates to the AND gate.
ChainSettled ==
    /\ file = ChainSource(<<S.SWITCH, S.zero, S.state>>)
    /\ locals.request = "run_network" /\ locals.ran = "True"
    /\ LevelOf(<<"A">>, <<>>) = HIGH
    /\ LevelOf(<<"G", "1">>, <<>>) = LOW
    /\ LevelOf(<<"G", "2">>, <<>>) = HIGH
    /\ LevelOf(<<"G", "3">>, <<>>) = LOW
    /\ LevelOf(<<"H">>, <<>>) = LOW

\* C40: a call of lookup that fails with a type error because its list
\* has an item that is not a string leaves the table of names as it was
\* before the call.
LookupFailureKeepsTable ==
    [][ (pc' = "TypeError" /\ locals'.method = "lookup") =>
            names_list' = names_list ]_vars

====
